---- MODULE Spec2Model ----
(***************************************************************************)
(* Verification model of video_workflow_rs.                                *)
(*                                                                         *)
(*   Spec      : the workflow engine, vwf-core/src/engine.rs               *)
(*               (Runner::run_with_options, validate_dag, execute_dag).    *)
(*   WideSpec  : the same engine on workflows of WideSteps steps.          *)
(*   SchedSpec : the DAG scheduler, vwf-dag/src/scheduler (Scheduler and   *)
(*               its helpers), driven as tests/scheduler.rs drives it.     *)
(*                                                                         *)
(* Step ids are the positions 1..NumSteps of the steps in the              *)
(* configuration (ids are unique: WorkflowConfig::validate).  depends_on   *)
(* is kept as a set of ids: the order of a depends_on list only orders     *)
(* the names inside messages.                                              *)
(***************************************************************************)
EXTENDS Integers, Sequences, FiniteSets, TLC

\* ------------------------------------------------------------------ bounds
NumSteps == 3
WideSteps == 4
MaxEdges == 2
NumTasks == 2
NumArtifacts == 1
MaxLinks == 1
FlowLinks == 2
InvArtifacts == 2
ChainLen == 3
MaxCalls == 3
MaxTemplateLen == 7
NumCallers == 3
MaxCapacity == 2
StatusArtifacts == 2
StatusLinks == 3
\* --------------------------------------------------------------- variables
VARIABLES
    \* --- workflow configuration (WorkflowConfig.steps)
    depends_on,          \* [Steps -> SUBSET DepIds]   StepConfig.depends_on
    resume_output,       \* [Steps -> template | NoOutput]  StepConfig.resume_output
    \* --- arguments of Runner::run_with_options
    resume,              \* RunOptions.resume
    merged_vars,         \* `vars`: cfg.vars extended with the caller's extra
    \* --- locals of execute_dag
    pc,                  \* "start" | "dispatch" | "done"
    completed, failed, blocked,
    reports,             \* [Steps -> StepReport | NoReport]
    runnable,            \* rest of the `for step_id in runnable` loop
    last_runnable_count,
    \* --- what run_with_options returned
    result,              \* "none" | "ok" | "err"
    error,               \* the Err value
    step_reports,        \* RunReport.steps
    \* --- observations
    trace,               \* dispatches of this run, in order: [step, how]
    seen,                \* [Steps -> "none"|"valid"|"invalid"]: should_skip's verdict
    probe,               \* the file should_skip found at the latest dispatch
    rerun,               \* this run follows a run in which every step was Ok
    executors,           \* [Steps -> status run_step returns], when the executors are deterministic
    \* --- WorkflowState
    tasks,               \* [TaskIds -> Task]       WorkflowState.tasks
    artifacts,           \* [ArtifactIds -> status] WorkflowState.artifacts
    \* --- Scheduler
    running, occupied_groups, occupied_resources,
    \* --- Runtime (FsRuntime, DryRunRuntime) and the filesystem under it
    command_allowlist,   \* FsRuntime.command_allowlist
    planned_dirs,        \* DryRunRuntime.planned_dirs
    planned_writes,      \* DryRunRuntime.planned_writes: <<path, content>> pairs
    disk,                \* [path -> content | NoContent]: files of the workdir
    spawned,             \* programs handed to std::process::Command, in order
    calls,               \* calls made on the Runtime, in order, with results
    \* --- WorkflowState, the fields beside tasks and artifacts
    header,              \* workflow_name, version, inputs, complete, error
    checkpoints,         \* [name -> CheckpointStatus]  WorkflowState.checkpoints
    \* --- GpuQueue and the tasks calling it
    capacity,            \* [queue -> permits given to Semaphore::new]
    permits,             \* [queue -> permits the semaphore has left]
    callers,             \* [caller -> [queue, at]]: where each run_* future stands
    waiters,             \* [queue -> futures polled and pending, oldest first]
    assigned             \* callers handed a permit while waiting, not yet polled

engineVars == <<depends_on, resume_output, resume, merged_vars, pc, completed, failed,
                blocked, reports, runnable, last_runnable_count, result, error,
                step_reports, trace, seen, probe, rerun, executors>>

schedVars == <<tasks, artifacts, running, occupied_groups, occupied_resources>>

rtVars == <<command_allowlist, planned_dirs, planned_writes, disk, spawned, calls>>

wfVars == <<header, checkpoints>>

queueVars == <<capacity, permits, callers, waiters, assigned>>

vars == <<engineVars, schedVars, rtVars, wfVars, queueVars>>

\* ------------------------------------------------------------ configuration
\* the configured steps, and `steps`: their ids in declared order
Steps == DOMAIN depends_on
StepSeq == [i \in 1..Cardinality(Steps) |-> i]
\* a name that no step carries (a dangling depends_on entry)
Ghost == 0

\* the depends_on relations of n steps with at most MaxEdges entries in all
EdgeSets(n) == {E \in SUBSET ((1..n) \X (0..n)) : Cardinality(E) <= MaxEdges}
DepsOf(E, n) == [s \in 1..n |-> {d \in 0..n : <<s, d>> \in E}]
Workflows(n) == {DepsOf(E, n) : E \in EdgeSets(n)}

\* resume_output templates, as token sequences; step s may declare OutputOf(s)
NoOutput == <<>>
Lit(x) == [var |-> FALSE, text |-> x]
Var(x) == [var |-> TRUE, text |-> x]
Extensions == <<"wav", "mp4", "txt", "", "mp3", "mkv", "m4a", "webm", "json">>
ExtOf(s) == Extensions[((s - 1) % Len(Extensions)) + 1]
OutputOf(s) ==
    IF ExtOf(s) = "" THEN <<Var("out"), Lit("/clip")>>
    ELSE <<Var("out"), Lit("/clip"), Lit("."), Lit(ExtOf(s))>>

\* variable maps a caller can pass
VarMaps == { [n \in {} |-> ""], [n \in {"out"} |-> "work"] }

\* what the disk can hold at a path: missing, or a file with a length and
\* the duration ffprobe prints for it (-1: ffprobe prints no number).
\* ffprobe finds no duration in an empty file.
MissingFile == [exists |-> FALSE, len |-> 0, duration |-> -1]
Files == {MissingFile} \cup
         { [exists |-> TRUE, len |-> l, duration |-> d] :
             <<l, d>> \in {<<0, -1>>, <<1, -1>>, <<1, 0>>, <<1, 1>>} }
NoFile == [exists |-> FALSE, len |-> -1, duration |-> -1]

ErrorMessages == {"boom"}

\* --------------------------------------------------------------- reports
NoError == [kind |-> "none", msg |-> "", deps |-> {}]
NoReport == [status |-> "Absent", error |-> NoError]
MsgError(e) == [kind |-> "msg", msg |-> e, deps |-> {}]
BlockedBy(ds) == [kind |-> "blocked_by", msg |-> "", deps |-> ds]

\* usize::MAX: a count no list of steps has
USIZE_MAX == -1

\* ---------------------------------------------------------- pure functions
\* render_template: every {{name}} token is replaced by its value; the first
\* name missing from the map is the error.
RECURSIVE render_template(_, _)
render_template(input, vs) ==
    IF input = <<>> THEN [ok |-> TRUE, out |-> <<>>, key |-> ""]
    ELSE LET tok == Head(input) IN
         IF tok.var /\ tok.text \notin DOMAIN vs
         THEN [ok |-> FALSE, out |-> <<>>, key |-> tok.text]
         ELSE LET rest == render_template(Tail(input), vs) IN
              IF rest.ok
              THEN [ok |-> TRUE,
                    out |-> <<IF tok.var THEN vs[tok.text] ELSE tok.text>> \o rest.out,
                    key |-> ""]
              ELSE rest

\* Path::extension of a rendered path ("" when there is none)
PathExtension(path) ==
    IF Len(path) >= 2 /\ path[Len(path) - 1] = "." THEN path[Len(path)] ELSE ""

file_non_empty(f) == f.len > 0
media_duration_positive(f) == f.duration > 0

output_is_valid_wrong(path, f) ==
    f.exists /\ file_non_empty(f)
output_is_valid(path, f) ==
    IF ~f.exists THEN FALSE
    ELSE IF PathExtension(path) \in {"wav", "mp3", "m4a"} THEN media_duration_positive(f)
    ELSE IF PathExtension(path) \in {"mp4", "mkv", "webm"} THEN media_duration_positive(f)
    ELSE file_non_empty(f)

\* does should_skip get as far as looking at the disk
ProbesDisk(s) ==
    /\ resume_output[s] # NoOutput
    /\ render_template(resume_output[s], merged_vars).ok

\* should_skip with the render step left out: the unrendered template is taken
\* as the path, and a path that still holds a {{name}} token names no file
should_skip_unrendered(s, f) ==
    IF resume_output[s] = NoOutput THEN FALSE
    ELSE IF \E i \in 1..Len(resume_output[s]) : resume_output[s][i].var THEN FALSE
    ELSE output_is_valid([i \in 1..Len(resume_output[s]) |-> resume_output[s][i].text], f)
should_skip(s, f) ==
    IF resume_output[s] = NoOutput THEN FALSE
    ELSE LET r == render_template(resume_output[s], merged_vars) IN
         IF ~r.ok THEN FALSE
         ELSE output_is_valid(r.out, f)

find_runnable_ignores_deps(c, fl, b) ==
    SelectSeq(StepSeq, LAMBDA s : s \notin c /\ s \notin fl /\ s \notin b)
\* find_runnable without the test for completed steps
find_runnable_redispatches(c, fl, b) ==
    SelectSeq(StepSeq, LAMBDA s :
        s \notin fl /\ s \notin b /\ \A dep \in depends_on[s] : dep \in c)
find_runnable(c, fl, b) ==
    SelectSeq(StepSeq, LAMBDA s :
        s \notin c /\ s \notin fl /\ s \notin b
        /\ \A dep \in depends_on[s] : dep \in c)

\* one pass of `for step in steps` inside find_all_dependents
RECURSIVE scan_dependents(_, _, _, _)
scan_dependents(i, current, dependents, to_check) ==
    IF i > Len(StepSeq) THEN [dependents |-> dependents, to_check |-> to_check]
    ELSE IF current \in depends_on[i] /\ i \notin dependents
         THEN scan_dependents(i + 1, current, dependents \cup {i}, to_check \o <<i>>)
         ELSE scan_dependents(i + 1, current, dependents, to_check)

RECURSIVE drain_to_check(_, _)
drain_to_check(to_check, dependents) ==
    IF to_check = <<>> THEN dependents
    ELSE LET current == to_check[Len(to_check)]
             r == scan_dependents(1, current, dependents,
                                  SubSeq(to_check, 1, Len(to_check) - 1))
         IN drain_to_check(r.to_check, r.dependents)

find_all_dependents(step_id) == drain_to_check(<<step_id>>, {})

\* validate_dag's adjacency list: step -> the steps that depend on it, in the
\* order the steps are declared
dependents_of(d) == SelectSeq(StepSeq, LAMBDA s : d \in depends_on[s])

NoCycle == <<>>

\* detect_cycle and its `for &neighbor in neighbors` loop; visited and
\* rec_stack are threaded through the recursion as the &mut sets are.
RECURSIVE detect_cycle(_, _, _), visit_neighbors(_, _, _, _)
detect_cycle(node, visited, rec_stack) ==
    LET r == visit_neighbors(node, dependents_of(node),
                             visited \cup {node}, rec_stack \cup {node})
    IN IF r.cycle # NoCycle THEN r
       ELSE [cycle |-> NoCycle, visited |-> r.visited,
             rec_stack |-> r.rec_stack \ {node}]
visit_neighbors(node, neighbors, visited, rec_stack) ==
    IF neighbors = <<>>
    THEN [cycle |-> NoCycle, visited |-> visited, rec_stack |-> rec_stack]
    ELSE LET neighbor == Head(neighbors) IN
         IF neighbor \notin visited
         THEN LET r == detect_cycle(neighbor, visited, rec_stack) IN
              IF r.cycle # NoCycle
              THEN [cycle |-> <<node>> \o r.cycle, visited |-> r.visited,
                    rec_stack |-> r.rec_stack]
              ELSE visit_neighbors(node, Tail(neighbors), r.visited, r.rec_stack)
         ELSE IF neighbor \in rec_stack
         THEN [cycle |-> <<node, neighbor>>, visited |-> visited,
               rec_stack |-> rec_stack]
         ELSE visit_neighbors(node, Tail(neighbors), visited, rec_stack)

\* the `for step in steps` loop of validate_dag that starts the searches
RECURSIVE cycle_scan(_, _, _)
cycle_scan(i, visited, rec_stack) ==
    IF i > Len(StepSeq) THEN NoCycle
    ELSE IF i \in visited THEN cycle_scan(i + 1, visited, rec_stack)
    ELSE LET r == detect_cycle(i, visited, rec_stack) IN
         IF r.cycle # NoCycle THEN r.cycle
         ELSE cycle_scan(i + 1, r.visited, r.rec_stack)

NoErr == [kind |-> "none", step |-> Ghost, dep |-> Ghost, path |-> <<>>]
MissingDepErr(s, d) == [kind |-> "missing_dep", step |-> s, dep |-> d, path |-> <<>>]
CycleErr(p) == [kind |-> "cycle", step |-> Ghost, dep |-> Ghost, path |-> p]
FailuresErr == [kind |-> "failures", step |-> Ghost, dep |-> Ghost, path |-> <<>>]

\* validate_dag: NoErr when the workflow is accepted, else the error it bails with
validate_dag_no_cycle_check ==
    LET bad == {s \in Steps : depends_on[s] \ Steps # {}} IN
    IF bad # {}
    THEN LET s == CHOOSE x \in bad : \A y \in bad : x <= y
         IN MissingDepErr(s, CHOOSE d \in depends_on[s] \ Steps : TRUE)
    ELSE NoErr
validate_dag ==
    LET bad == {s \in Steps : depends_on[s] \ Steps # {}} IN
    IF bad # {}
    THEN LET s == CHOOSE x \in bad : \A y \in bad : x <= y
         IN MissingDepErr(s, CHOOSE d \in depends_on[s] \ Steps : TRUE)
    ELSE LET c == cycle_scan(1, {}, {}) IN
         IF c # NoCycle THEN CycleErr(c) ELSE NoErr

\* ------------------------------------------------------------ report pieces
Report(st, e) == [status |-> st, error |-> e]
NoProbe == [step |-> Ghost, file |-> NoFile]

skipped_report(s) == Report("Skipped", NoError)

\* run_step: the executor either succeeds or returns an error message
run_step_ok(s) == Report("Ok", NoError)
run_step_failed(s, e) == Report("Failed", MsgError(e))

\* the report execute_dag writes for a step it never ran
blocked_report(s) ==
    Report("Blocked", BlockedBy({d \in depends_on[s] : d \in failed \/ d \in blocked}))

\* `reports` without the "Generate blocked reports" loop
filled_reports_without_blocked == reports

\* `reports` after the "Generate blocked reports" loop
filled_reports ==
    [s \in Steps |-> IF reports[s] = NoReport THEN blocked_report(s) ELSE reports[s]]

\* the ordered report list: steps.iter().filter_map(|s| reports.remove(&s.id))
ordered_reports(rs) ==
    LET present == SelectSeq(StepSeq, LAMBDA s : rs[s] # NoReport)
    IN [i \in 1..Len(present) |->
          [id |-> present[i], status |-> rs[present[i]].status,
           error |-> rs[present[i]].error]]

count_status(sr, st) == Cardinality({i \in 1..Len(sr) : sr[i].status = st})

has_failures_failed_only(sr) == count_status(sr, "Failed") > 0
has_failures(sr) == count_status(sr, "Failed") > 0 \/ count_status(sr, "Blocked") > 0

\* the failed step marked blocked together with its dependents
newly_blocked_with_self(step_id, c, fl) ==
    {dep \in find_all_dependents(step_id) \cup {step_id} : dep \notin c}

\* the steps a Failed step blocks: its transitive dependents not yet
\* completed or failed
newly_blocked(step_id, c, fl) ==
    {dep \in find_all_dependents(step_id) : dep \notin c /\ dep \notin fl}

\* the loop over the dependents that leaves after its first blocked.insert
insert_blocked_first_only(order, b) ==
    IF order = <<>> THEN b ELSE b \cup {order[1]}

\* blocked.insert(dep) for each dependent the loop lets through, in the
\* order the HashSet hands them out
RECURSIVE insert_blocked(_, _)
insert_blocked(order, b) ==
    IF order = <<>> THEN b ELSE insert_blocked(Tail(order), b \cup {Head(order)})

\* ------------------------------------------------------------------- Init
EmptyVars == [n \in {} |-> ""]

\* no WorkflowState and an idle Scheduler
\* no Runtime call is made and no file of the workdir is observed
NoRuntime ==
    /\ command_allowlist = {}
    /\ planned_dirs = <<>> /\ planned_writes = <<>>
    /\ disk = <<>>
    /\ spawned = <<>> /\ calls = <<>>

\* a WorkflowState without header fields of interest and without checkpoints
NoCheckpoints == header = <<>> /\ checkpoints = <<>>

\* no GpuQueue is in use
NoQueue ==
    /\ capacity = <<>> /\ permits = <<>> /\ callers = <<>>
    /\ waiters = <<>> /\ assigned = {}

NoScheduler ==
    /\ tasks = <<>> /\ artifacts = <<>>
    /\ running = {} /\ occupied_groups = {} /\ occupied_resources = {}

FreshRun ==
    /\ completed = {} /\ failed = {} /\ blocked = {}
    /\ reports = [s \in Steps |-> NoReport]
    /\ runnable = <<>>
    /\ last_runnable_count = USIZE_MAX
    /\ result = "none" /\ error = NoErr /\ step_reports = <<>>
    /\ trace = <<>>
    /\ seen = [s \in Steps |-> "none"]
    /\ probe = NoProbe

\* the resume_output fields of n steps: each step declares OutputOf(s) or nothing
OutputChoices(n) ==
    {f \in [1..n -> {NoOutput} \cup {OutputOf(s) : s \in 1..n}] :
        \A s \in 1..n : f[s] \in {NoOutput, OutputOf(s)}}

Init ==
    /\ depends_on \in Workflows(NumSteps)
    /\ resume_output \in OutputChoices(NumSteps)
    /\ resume = FALSE
    /\ merged_vars = EmptyVars
    /\ pc = "start"
    /\ FreshRun
    /\ rerun = FALSE
    /\ executors = <<>>
    /\ NoScheduler
    /\ NoRuntime
    /\ NoCheckpoints
    /\ NoQueue

\* ---------------------------------------------------------------- actions
\* Runner::run_with_options, validate_dag bails
RunRejected(r, v) ==
    /\ pc = "start"
    /\ validate_dag # NoErr
    /\ resume' = r /\ merged_vars' = v
    /\ result' = "err" /\ error' = validate_dag
    /\ pc' = "done"
    /\ UNCHANGED <<queueVars, wfVars, rtVars, schedVars, depends_on, resume_output, completed, failed, blocked, reports,
                   runnable, last_runnable_count, step_reports, trace, seen, probe,
                   rerun, executors>>

\* Runner::run_with_options, validate_dag passes: execute_dag is entered
RunAccepted(r, v) ==
    /\ pc = "start"
    /\ validate_dag = NoErr
    /\ resume' = r /\ merged_vars' = v
    /\ pc' = "loop"
    /\ UNCHANGED <<queueVars, wfVars, rtVars, schedVars, depends_on, resume_output, completed, failed, blocked, reports,
                   runnable, last_runnable_count, result, error, step_reports, trace,
                   seen, probe, rerun, executors>>

\* execute_dag from the `break` to the return
Return ==
    /\ reports' = filled_reports
    /\ step_reports' = ordered_reports(filled_reports)
    /\ result' = IF has_failures(ordered_reports(filled_reports)) THEN "err" ELSE "ok"
    /\ error' = IF has_failures(ordered_reports(filled_reports)) THEN FailuresErr ELSE NoErr
    /\ pc' = "done"
    /\ UNCHANGED <<queueVars, wfVars, rtVars, schedVars, depends_on, resume_output, resume, merged_vars, completed, failed,
                   blocked, runnable, last_runnable_count, trace, seen, probe, rerun, executors>>

\* loop head: nothing is runnable
BreakEmpty ==
    /\ pc = "loop"
    /\ find_runnable(completed, failed, blocked) = <<>>
    /\ Return

\* loop head: the "ensure we're making progress" check
BreakNoProgress ==
    /\ pc = "loop"
    /\ find_runnable(completed, failed, blocked) # <<>>
    /\ Len(find_runnable(completed, failed, blocked)) = last_runnable_count
    /\ Return

\* loop head: a round of dispatches begins
BeginRound ==
    /\ pc = "loop"
    /\ find_runnable(completed, failed, blocked) # <<>>
    /\ Len(find_runnable(completed, failed, blocked)) # last_runnable_count
    /\ runnable' = find_runnable(completed, failed, blocked)
    /\ last_runnable_count' = Len(find_runnable(completed, failed, blocked))
    /\ pc' = "dispatch"
    /\ UNCHANGED <<queueVars, wfVars, rtVars, schedVars, depends_on, resume_output, resume, merged_vars, completed, failed,
                   blocked, reports, result, error, step_reports, trace, seen, probe,
                   rerun, executors>>

\* the files should_skip may find for the step at the head of the round
FilesAt(s) == IF resume /\ ProbesDisk(s) THEN Files ELSE {NoFile}

NextInRound ==
    /\ runnable' = Tail(runnable)
    /\ pc' = IF Tail(runnable) = <<>> THEN "loop" ELSE "dispatch"

Observe(s, f, how) ==
    /\ trace' = Append(trace, [step |-> s, how |-> how])
    /\ probe' = IF resume /\ ProbesDisk(s) THEN [step |-> s, file |-> f] ELSE NoProbe
    /\ seen' = [seen EXCEPT ![s] =
                   IF resume /\ ProbesDisk(s)
                   THEN (IF output_is_valid(render_template(resume_output[s], merged_vars).out, f)
                         THEN "valid" ELSE "invalid")
                   ELSE "none"]

\* one iteration of `for step_id in runnable`: the resume skip
DispatchSkip(f) ==
    /\ pc = "dispatch"
    /\ LET step_id == Head(runnable) IN
       /\ f \in FilesAt(step_id)
       /\ resume /\ should_skip(step_id, f)
       /\ completed' = completed \cup {step_id}
       /\ reports' = [reports EXCEPT ![step_id] = skipped_report(step_id)]
       /\ Observe(step_id, f, "skip")
    /\ NextInRound
    /\ UNCHANGED <<queueVars, wfVars, rtVars, schedVars, depends_on, resume_output, resume, merged_vars, failed, blocked,
                   last_runnable_count, result, error, step_reports, rerun, executors>>

\* one iteration of `for step_id in runnable`: the executor returns Ok
DispatchOk(f) ==
    /\ pc = "dispatch"
    /\ LET step_id == Head(runnable) IN
       /\ f \in FilesAt(step_id)
       /\ ~(resume /\ should_skip(step_id, f))
       /\ reports' = [reports EXCEPT ![step_id] = run_step_ok(step_id)]
       /\ completed' = completed \cup {step_id}
       /\ Observe(step_id, f, "run")
    /\ NextInRound
    /\ UNCHANGED <<queueVars, wfVars, rtVars, schedVars, depends_on, resume_output, resume, merged_vars, failed, blocked,
                   last_runnable_count, result, error, step_reports, rerun, executors>>

\* one iteration of `for step_id in runnable`: the executor returns an error
DispatchFailed(f, e) ==
    /\ pc = "dispatch"
    /\ LET step_id == Head(runnable) IN
       /\ f \in FilesAt(step_id)
       /\ ~(resume /\ should_skip(step_id, f))
       /\ reports' = [reports EXCEPT ![step_id] = run_step_failed(step_id, e)]
       /\ failed' = failed \cup {step_id}
       /\ LET deps == newly_blocked(step_id, completed, failed \cup {step_id}) IN
          \E order \in {o \in [1..Cardinality(deps) -> deps] :
                           \A i, j \in 1..Cardinality(deps) : o[i] = o[j] => i = j} :
             blocked' = insert_blocked(order, blocked)
       /\ Observe(step_id, f, "run")
    /\ NextInRound
    /\ UNCHANGED <<queueVars, wfVars, rtVars, schedVars, depends_on, resume_output, resume, merged_vars, completed,
                   last_runnable_count, result, error, step_reports, rerun, executors>>

\* the caller runs the same workflow again after a run in which every step
\* was Ok
RunAgain ==
    /\ pc = "done"
    /\ ~rerun
    /\ result = "ok"
    /\ \A i \in 1..Len(step_reports) : step_reports[i].status = "Ok"
    /\ rerun' = TRUE
    /\ pc' = "start"
    /\ resume' = FALSE /\ merged_vars' = EmptyVars
    /\ completed' = {} /\ failed' = {} /\ blocked' = {}
    /\ reports' = [s \in Steps |-> NoReport]
    /\ runnable' = <<>>
    /\ last_runnable_count' = USIZE_MAX
    /\ result' = "none" /\ error' = NoErr /\ step_reports' = <<>>
    /\ trace' = <<>>
    /\ seen' = [s \in Steps |-> "none"]
    /\ probe' = NoProbe
    /\ UNCHANGED <<queueVars, wfVars, rtVars, schedVars, depends_on, resume_output,
                   executors>>

Next ==
    \/ \E r \in BOOLEAN, v \in VarMaps : RunRejected(r, v)
    \/ \E r \in BOOLEAN, v \in VarMaps : RunAccepted(r, v)
    \/ BreakEmpty
    \/ BreakNoProgress
    \/ BeginRound
    \/ \E f \in Files \cup {NoFile} : DispatchSkip(f)
    \/ \E f \in Files \cup {NoFile} : DispatchOk(f)
    \/ \E f \in Files \cup {NoFile}, e \in ErrorMessages : DispatchFailed(f, e)
    \/ RunAgain

Spec == Init /\ [][Next]_vars

\* the same engine on workflows of WideSteps steps in which every step
\* declares a resume_output or none does
WideInit ==
    /\ depends_on \in Workflows(WideSteps)
    /\ resume_output \in {[s \in 1..WideSteps |-> NoOutput],
                          [s \in 1..WideSteps |-> OutputOf(s)]}
    /\ resume = FALSE
    /\ merged_vars = EmptyVars
    /\ pc = "start"
    /\ FreshRun
    /\ rerun = FALSE
    /\ executors = <<>>
    /\ NoScheduler
    /\ NoRuntime
    /\ NoCheckpoints
    /\ NoQueue

WideSpec == WideInit /\ [][Next]_vars

\* ======================================================================
\* Properties of the engine
\* ======================================================================
\* execute_dag has returned (validate_dag had accepted the workflow)
Finished == pc = "done" /\ error.kind \notin {"cycle", "missing_dep"}

StatusOf(s) == reports[s].status
Executed == {trace[i].step : i \in {j \in 1..Len(trace) : trace[j].how = "run"}}
Dispatched == {trace[i].step : i \in 1..Len(trace)}

RECURSIVE UpClosure(_)
UpClosure(S) ==
    LET T == S \cup UNION {depends_on[x] \cap Steps : x \in S}
    IN IF T = S THEN S ELSE UpClosure(T)
\* the direct and transitive dependencies of s
Ancestors(s) == UpClosure(depends_on[s] \cap Steps)
\* the steps that directly or transitively depend on s
Descendants(s) == {t \in Steps : s \in Ancestors(t)}
HasCycle == \E s \in Steps : s \in Ancestors(s)
HasDangling == \E s \in Steps : depends_on[s] \ Steps # {}

\* C2: whenever a step is dispatched (executed or resume-skipped), every step
\* in its depends_on list was dispatched before it and finished Ok or Skipped.
C2_TopologicalRespect ==
    \A i \in 1..Len(trace) :
        \A d \in depends_on[trace[i].step] :
            /\ \E j \in 1..(i - 1) : trace[j].step = d
            /\ d \in Steps
            /\ StatusOf(d) \in {"Ok", "Skipped"}

C2_Witness ==
    \E i \in 1..Len(trace) :
        /\ depends_on[trace[i].step] # {}
        /\ trace[i].how = "run"

\* C3: in a run without resume in which no executor fails, every step is
\* reported Ok, in declared order, and the run succeeds.
C3_AllSucceedAllOk ==
    (Finished /\ ~resume /\ \A s \in Steps : StatusOf(s) # "Failed")
        => /\ result = "ok"
           /\ Len(step_reports) = Len(StepSeq)
           /\ \A i \in 1..Len(step_reports) :
                  step_reports[i].id = StepSeq[i] /\ step_reports[i].status = "Ok"

\* C4: a step is reported Blocked only if one of its direct or transitive
\* dependencies is reported Failed.
C4_BlockedOnlyBelowFailure ==
    Finished =>
        \A s \in Steps :
            StatusOf(s) = "Blocked" => \E a \in Ancestors(s) : StatusOf(a) = "Failed"

\* C5: a step whose executor fails is reported Failed with the message, each
\* of its transitive dependents is reported Blocked and is never executed,
\* and every step without a failed dependency is still dispatched.
C5_FailureIsolation ==
    Finished =>
        /\ \A f \in Steps : StatusOf(f) = "Failed" =>
              /\ reports[f].error.kind = "msg"
              /\ reports[f].error.msg \in ErrorMessages
              /\ \A d \in Descendants(f) : StatusOf(d) = "Blocked" /\ d \notin Dispatched
        /\ (\E f \in Steps : StatusOf(f) = "Failed") =>
              \A s \in Steps :
                  (\A a \in Ancestors(s) : StatusOf(a) # "Failed") => s \in Dispatched

\* C6: the run returns Ok exactly when every step is Ok or Skipped, and an
\* error exactly when some step is Failed or Blocked.
C6_SuccessIffNoFailure ==
    Finished =>
        /\ Len(step_reports) = Len(StepSeq)
        /\ result \in {"ok", "err"}
        /\ result = "ok" <=>
              \A i \in 1..Len(step_reports) : step_reports[i].status \in {"Ok", "Skipped"}
        /\ result = "err" <=>
              \E i \in 1..Len(step_reports) : step_reports[i].status \in {"Failed", "Blocked"}

C6_Witness ==
    /\ Finished /\ result = "ok"
    /\ \E i \in 1..Len(step_reports) : step_reports[i].status = "Skipped"
    /\ \E i \in 1..Len(step_reports) : step_reports[i].status = "Ok"

\* the rendered resume_output path of s (defined when it renders)
Renders(s) == resume_output[s] # NoOutput /\ render_template(resume_output[s], merged_vars).ok
RenderedPath(s) == render_template(resume_output[s], merged_vars).out

\* every output a step declares was found valid when this run looked at it
DeclaredOutputsValid ==
    \A s \in Steps : resume_output[s] # NoOutput => (Renders(s) /\ seen[s] # "invalid")

\* C7 as stated: a resume run that follows an all-Ok run, the declared
\* outputs being valid, reports every step Skipped and invokes no executor.
C7_ResumeSkipsEverything ==
    (rerun /\ resume /\ Finished /\ DeclaredOutputsValid)
        => /\ \A s \in Steps : StatusOf(s) = "Skipped"
           /\ Executed = {}

\* C7 amended: the same, for workflows in which every step declares a
\* resume_output; and in a resume run a step that declares none is executed
\* whenever it is dispatched.
C7_ResumeSkipsDeclared ==
    /\ (rerun /\ resume /\ Finished /\ DeclaredOutputsValid
           /\ \A s \in Steps : resume_output[s] # NoOutput)
          => /\ \A s \in Steps : StatusOf(s) = "Skipped"
             /\ Executed = {}
    /\ (rerun /\ resume)
          => \A i \in 1..Len(trace) :
                resume_output[trace[i].step] = NoOutput => trace[i].how = "run"

C7_Witness ==
    /\ rerun /\ resume /\ Finished
    /\ \A s \in Steps : resume_output[s] # NoOutput /\ StatusOf(s) = "Skipped"
    /\ \E s \in Steps : depends_on[s] # {}
    /\ Len(trace) = Len(StepSeq)

\* the output-validity predicate as the specification words it
MediaExtensions == {"wav", "mp3", "m4a", "mp4", "mkv", "webm"}
ValidOnDisk(path, f) ==
    /\ f.exists
    /\ IF PathExtension(path) \in MediaExtensions THEN f.duration > 0 ELSE f.len > 0

\* C8: the step dispatched last was skipped exactly when the run is in resume
\* mode and its rendered resume_output is valid on disk; without resume no
\* step is Skipped; a missing or empty output is never skipped.
C8_SkipIffResumeAndValid ==
    /\ Len(trace) > 0 =>
          LET t == trace[Len(trace)] IN
          /\ t.how = "skip" <=>
                (resume /\ Renders(t.step) /\ probe.step = t.step
                        /\ ValidOnDisk(RenderedPath(t.step), probe.file))
          /\ t.how = "skip" => (probe.file.exists /\ probe.file.len > 0)
          /\ t.how = "skip" <=> StatusOf(t.step) = "Skipped"
    /\ ~resume => \A s \in Steps : StatusOf(s) # "Skipped"

C8_Witness ==
    /\ Len(trace) > 0
    /\ resume
    /\ trace[Len(trace)].how = "run"
    /\ probe.step = trace[Len(trace)].step
    /\ probe.file.exists /\ probe.file.len > 0
    /\ PathExtension(RenderedPath(probe.step)) \in MediaExtensions

\* C9: a step all of whose dependencies are Ok or Skipped, one of them
\* Skipped, is dispatched and not reported Blocked.
C9_SkippedEnablesDependents ==
    Finished =>
        \A s \in Steps :
            (/\ depends_on[s] # {}
             /\ \A d \in depends_on[s] : StatusOf(d) \in {"Ok", "Skipped"}
             /\ \E d \in depends_on[s] : StatusOf(d) = "Skipped")
              => (s \in Dispatched /\ StatusOf(s) # "Blocked")

\* the cycle path of the error is a walk along depends_on edges that ends by
\* coming back to a step it already holds
PathClosesCycle(p) ==
    /\ Len(p) >= 2
    /\ \A i \in 1..Len(p) : p[i] \in Steps
    /\ \A i \in 1..(Len(p) - 1) : p[i] \in depends_on[p[i + 1]]
    /\ \E i \in 1..(Len(p) - 1) : p[i] = p[Len(p)]
    /\ p[Len(p)] \in Ancestors(p[Len(p)])

NothingDispatched ==
    /\ trace = <<>>
    /\ \A s \in Steps : reports[s] = NoReport
    /\ step_reports = <<>>

\* C10 as stated: a workflow with a cycle is rejected with the cycle error,
\* naming steps on the cycle, before any step is executed or skipped.
C10_CycleRejectedNamingCycle ==
    HasCycle =>
        /\ NothingDispatched
        /\ pc \in {"start", "done"}
        /\ pc = "done" =>
              /\ result = "err"
              /\ \/ error.kind = "cycle" /\ PathClosesCycle(error.path)
                 \/ error.kind = "missing_dep" /\ error.step \in Steps
                       /\ error.step \in Ancestors(error.step)

\* C10 amended: a workflow with a cycle is rejected before any step is
\* executed or skipped; the error is the cycle error, its path closing a
\* cycle, when every depends_on entry names a step, and otherwise the error
\* that names a dangling entry.
C10_CycleRejected ==
    HasCycle =>
        /\ NothingDispatched
        /\ pc \in {"start", "done"}
        /\ pc = "done" =>
              /\ result = "err"
              /\ ~HasDangling => (error.kind = "cycle" /\ PathClosesCycle(error.path))
              /\ HasDangling =>
                    /\ error.kind = "missing_dep"
                    /\ error.step \in Steps
                    /\ error.dep \in depends_on[error.step] \ Steps

C10_Witness ==
    /\ HasCycle /\ ~HasDangling /\ pc = "done"
    /\ error.kind = "cycle" /\ Len(error.path) = 3

\* ======================================================================
\* The DAG scheduler (vwf-dag)
\* ======================================================================
\* Task ids are numbers; WorkflowState.tasks is a BTreeMap, so tasks are
\* visited in id order.
TaskIds == DOMAIN tasks
\* state.tasks.values(): the BTreeMap hands out the tasks in ascending id
TaskSeq ==
    IF TaskIds = {} THEN <<>>
    ELSE LET last == CHOOSE x \in TaskIds : \A y \in TaskIds : y <= x
         IN SelectSeq([i \in 1..last |-> i], LAMBDA i : i \in TaskIds)
ArtifactIds == DOMAIN artifacts

\* Option<String>: None, or one of the names the configurations use
NoGroup == "None"
NoResource == "None"
Groups == {"tts"}
Resources == {"gpu"}

Required(a) == [kind |-> "Required", artifact |-> a]

\* TaskStatus::Blocked { waiting_on } entries
WaitTask(t) == [kind |-> "task", id |-> t]
WaitArtifact(a) == [kind |-> "artifact", id |-> a]

\* Task::new plus the fields the configuration sets
NewTask(ins, outs, g, r) ==
    [inputs |-> ins, outputs |-> outs, sequential_group |-> g, resource |-> r,
     status |-> "Blocked", waiting_on |-> <<>>, error |-> "", reason |-> ""]

is_ready(t) == tasks[t].status = "Ready"
is_complete(t) == tasks[t].status = "Complete"

\* status::build_available_set
available == {a \in ArtifactIds : artifacts[a] \in {"Ready", "Placeholder"}}

\* status::build_producer_map: the last task, in id order, that lists the
\* artifact among its outputs (0: none)
producer_of(a) ==
    LET ps == {t \in TaskIds : \E i \in 1..Len(tasks[t].outputs) : tasks[t].outputs[i] = a}
    IN IF ps = {} THEN 0 ELSE CHOOSE t \in ps : \A u \in ps : u <= t

\* the waiting list with an entry per unsatisfied input of any kind
waiting_list_any_kind(ins) ==
    LET missing == SelectSeq(ins, LAMBDA i : i.artifact \notin available)
    IN [k \in 1..Len(missing) |->
          IF producer_of(missing[k].artifact) # 0
          THEN WaitTask(producer_of(missing[k].artifact))
          ELSE WaitArtifact(missing[k].artifact)]

\* the waiting list of one task: an entry per unsatisfied Required input
RECURSIVE waiting_list(_)
waiting_list(ins) ==
    IF ins = <<>> THEN <<>>
    ELSE LET i == Head(ins) IN
         IF i.kind = "Required" /\ i.artifact \notin available
         THEN <<IF producer_of(i.artifact) # 0 THEN WaitTask(producer_of(i.artifact))
                ELSE WaitArtifact(i.artifact)>> \o waiting_list(Tail(ins))
         ELSE waiting_list(Tail(ins))

\* helpers::update_all_task_statuses without the skip of Complete tasks
update_all_task_statuses_recomputes_complete ==
    [t \in TaskIds |->
        IF tasks[t].status \in {"Running", "Skipped", "Failed"}
        THEN tasks[t]
        ELSE IF waiting_list(tasks[t].inputs) = <<>>
             THEN [tasks[t] EXCEPT !.status = "Ready", !.waiting_on = <<>>]
             ELSE [tasks[t] EXCEPT !.status = "Blocked",
                                   !.waiting_on = waiting_list(tasks[t].inputs)]]

\* helpers::update_all_task_statuses without the skip of Failed tasks
update_all_task_statuses_refreshes_failed ==
    [t \in TaskIds |->
        IF tasks[t].status \in {"Complete", "Running", "Skipped"}
        THEN tasks[t]
        ELSE IF waiting_list(tasks[t].inputs) = <<>>
             THEN [tasks[t] EXCEPT !.status = "Ready", !.waiting_on = <<>>]
             ELSE [tasks[t] EXCEPT !.status = "Blocked",
                                   !.waiting_on = waiting_list(tasks[t].inputs)]]

\* helpers::update_all_task_statuses
update_all_task_statuses ==
    [t \in TaskIds |->
        IF tasks[t].status \in {"Complete", "Running", "Skipped", "Failed"}
        THEN tasks[t]
        ELSE IF waiting_list(tasks[t].inputs) = <<>>
             THEN [tasks[t] EXCEPT !.status = "Ready", !.waiting_on = <<>>]
             ELSE [tasks[t] EXCEPT !.status = "Blocked",
                                   !.waiting_on = waiting_list(tasks[t].inputs)]]

\* Scheduler::is_blocked
is_blocked_groups_only(t) ==
    tasks[t].sequential_group # NoGroup /\ tasks[t].sequential_group \in occupied_groups
is_blocked(t) ==
    \/ tasks[t].sequential_group # NoGroup /\ tasks[t].sequential_group \in occupied_groups
    \/ tasks[t].resource # NoResource /\ tasks[t].resource \in occupied_resources

\* Scheduler::get_runnable_tasks
get_runnable_tasks == SelectSeq(TaskSeq, LAMBDA t : is_ready(t) /\ ~is_blocked(t))

\* ------------------------------------------------------------ SchedInit
BoundedSeqs(S, n) == UNION {[1..k -> S] : k \in 0..n}

InputSpecs(na) == {Required(a) : a \in 1..na}

TaskShapes(na) ==
    {NewTask(ins, outs, g, r) :
        ins \in BoundedSeqs(InputSpecs(na), 1), outs \in BoundedSeqs(1..na, 1),
        g \in {NoGroup} \cup Groups, r \in {NoResource} \cup Resources}

Links(ts) ==
    LET RECURSIVE sum(_)
        sum(i) == IF i = 0 THEN 0
                  ELSE Len(ts[i].inputs) + Len(ts[i].outputs) + sum(i - 1)
    IN sum(Len(ts))

NoEngine ==
    /\ depends_on = <<>> /\ resume_output = <<>>
    /\ resume = FALSE /\ merged_vars = EmptyVars
    /\ pc = "idle"
    /\ FreshRun
    /\ rerun = FALSE
    /\ executors = <<>>

SchedInit ==
    /\ tasks \in {ts \in [1..NumTasks -> TaskShapes(NumArtifacts)] : Links(ts) <= MaxLinks}
    /\ artifacts = [a \in 1..NumArtifacts |-> "Absent"]
    /\ running = {} /\ occupied_groups = {} /\ occupied_resources = {}
    /\ NoEngine
    /\ NoRuntime
    /\ NoCheckpoints
    /\ NoQueue

\* ---------------------------------------------------------- sched actions
\* Scheduler::update_task_statuses
UpdateTaskStatuses ==
    /\ tasks' = update_all_task_statuses
    /\ UNCHANGED <<artifacts, running, occupied_groups, occupied_resources, engineVars, rtVars, wfVars, queueVars>>

\* the caller picks a task get_runnable_tasks returns (a Ready one), calls
\* start_task and marks it Running
StartTask(t) ==
    /\ is_ready(t)
    /\ \E i \in 1..Len(get_runnable_tasks) : get_runnable_tasks[i] = t
    /\ running' = running \cup {t}
    /\ occupied_groups' =
          IF tasks[t].sequential_group # NoGroup
          THEN occupied_groups \cup {tasks[t].sequential_group} ELSE occupied_groups
    /\ occupied_resources' =
          IF tasks[t].resource # NoResource
          THEN occupied_resources \cup {tasks[t].resource} ELSE occupied_resources
    /\ tasks' = [tasks EXCEPT ![t].status = "Running"]
    /\ UNCHANGED <<artifacts, engineVars, rtVars, wfVars, queueVars>>

\* Scheduler::finish_task, the scheduler's part
Release(t) ==
    /\ running' = running \ {t}
    /\ occupied_groups' =
          IF tasks[t].sequential_group # NoGroup
          THEN occupied_groups \ {tasks[t].sequential_group} ELSE occupied_groups
    /\ occupied_resources' =
          IF tasks[t].resource # NoResource
          THEN occupied_resources \ {tasks[t].resource} ELSE occupied_resources

\* a started task succeeds: the caller calls finish_task and marks the task
\* Complete; its outputs enter the state only through add_artifact
FinishTaskOk(t) ==
    /\ t \in running
    /\ Release(t)
    /\ tasks' = [tasks EXCEPT ![t].status = "Complete"]
    /\ UNCHANGED <<artifacts, engineVars, rtVars, wfVars, queueVars>>

\* a started task fails: the caller calls finish_task and marks it Failed
FinishTaskFailed(t) ==
    /\ t \in running
    /\ Release(t)
    /\ \E e \in ErrorMessages :
          tasks' = [tasks EXCEPT ![t].status = "Failed", ![t].error = e]
    /\ UNCHANGED <<artifacts, engineVars, rtVars, wfVars, queueVars>>

\* WorkflowState::add_artifact: artifacts.insert(id, artifact); an artifact
\* already in the map is replaced (an insert of the status the map already
\* holds changes nothing here and is not a step)
AddArtifact(a, st) ==
    /\ a \in ArtifactIds
    /\ artifacts[a] # st
    /\ artifacts' = [artifacts EXCEPT ![a] = st]
    /\ UNCHANGED <<tasks, running, occupied_groups, occupied_resources, engineVars, rtVars, wfVars, queueVars>>

SchedNext ==
    \/ UpdateTaskStatuses
    \/ \E t \in TaskIds : StartTask(t)
    \/ \E t \in TaskIds : FinishTaskOk(t)
    \/ \E t \in TaskIds : FinishTaskFailed(t)
    \/ \E a \in ArtifactIds, st \in {"Placeholder", "Ready"} : AddArtifact(a, st)

SchedSpec == SchedInit /\ [][SchedNext]_vars

\* tasks that were started and have not finished share no group and no resource
SharesConstraint(t, u) ==
    \/ tasks[t].sequential_group # NoGroup
         /\ tasks[t].sequential_group = tasks[u].sequential_group
    \/ tasks[t].resource # NoResource /\ tasks[t].resource = tasks[u].resource

\* C1: with one dispatch at a time, no two tasks that share a sequential_group
\* or a resource are started and unfinished together.
C1_MutualExclusion ==
    \A t \in running : \A u \in running : t # u => ~SharesConstraint(t, u)

C1_Witness ==
    \E t \in TaskIds : \E u \in running :
        /\ t # u
        /\ SharesConstraint(t, u)
        /\ tasks[t].status = "Complete"
        /\ tasks[u].status = "Running"

\* ======================================================================
\* Invalidation (vwf-dag scheduler helpers)
\* ======================================================================
task_consumes(t, a) ==
    \E i \in 1..Len(tasks[t].inputs) :
        /\ tasks[t].inputs[i].kind \in {"Required", "Optional", "Placeholder"}
        /\ tasks[t].inputs[i].artifact = a

\* helpers::collect_invalidation_targets: to_process is a stack; an artifact
\* popped for the first time pushes the outputs, not yet invalidated, of every
\* Complete task that consumes it
collect_invalidation_targets(changed) ==
    LET RECURSIVE pushed(_, _, _), loop(_, _)
        pushed(ts, a, invalidated) ==
            IF ts = <<>> THEN <<>>
            ELSE (IF is_complete(Head(ts)) /\ task_consumes(Head(ts), a)
                  THEN SelectSeq(tasks[Head(ts)].outputs, LAMBDA o : o \notin invalidated)
                  ELSE <<>>) \o pushed(Tail(ts), a, invalidated)
        loop(to_process, invalidated) ==
            IF to_process = <<>> THEN invalidated
            ELSE LET a == to_process[Len(to_process)]
                     rest == SubSeq(to_process, 1, Len(to_process) - 1)
                 IN IF a \in invalidated THEN loop(rest, invalidated)
                    ELSE loop(rest \o pushed(TaskSeq, a, invalidated \cup {a}),
                              invalidated \cup {a})
    IN loop(<<changed>>, {})

\* helpers::apply_invalidations, the artifacts
invalidated_artifacts(inv) ==
    [a \in ArtifactIds |->
        IF a \in inv /\ artifacts[a] = "Ready" THEN "Invalidated" ELSE artifacts[a]]

\* helpers::apply_invalidations, the tasks
reset_tasks_with_producers(inv) ==
    [t \in TaskIds |->
        IF is_complete(t)
           /\ (\/ \E i \in 1..Len(tasks[t].inputs) : tasks[t].inputs[i].artifact \in inv
               \/ \E i \in 1..Len(tasks[t].outputs) : tasks[t].outputs[i] \in inv)
        THEN [tasks[t] EXCEPT !.status = "Blocked", !.waiting_on = <<>>]
        ELSE tasks[t]]
reset_tasks(inv) ==
    [t \in TaskIds |->
        IF is_complete(t) /\ \E i \in 1..Len(tasks[t].inputs) : tasks[t].inputs[i].artifact \in inv
        THEN [tasks[t] EXCEPT !.status = "Blocked", !.waiting_on = <<>>]
        ELSE tasks[t]]

\* Scheduler::invalidate_downstream
InvalidateDownstream(changed) ==
    /\ changed \in ArtifactIds
    /\ artifacts' = invalidated_artifacts(collect_invalidation_targets(changed))
    /\ tasks' = reset_tasks(collect_invalidation_targets(changed))
    /\ UNCHANGED <<running, occupied_groups, occupied_resources, engineVars, rtVars, wfVars, queueVars>>

\* ------------------------------------------------------------- FlowSpec
\* workflows without constraints, driven through refresh, dispatch,
\* completion and invalidation
Unconstrained(ts) ==
    \A t \in DOMAIN ts : ts[t].sequential_group = NoGroup /\ ts[t].resource = NoResource

FlowInit ==
    /\ tasks \in {ts \in [1..NumTasks -> TaskShapes(NumArtifacts)] :
                     Links(ts) <= FlowLinks /\ Unconstrained(ts)}
    /\ artifacts = [a \in 1..NumArtifacts |-> "Absent"]
    /\ running = {} /\ occupied_groups = {} /\ occupied_resources = {}
    /\ NoEngine
    /\ NoRuntime
    /\ NoCheckpoints
    /\ NoQueue

FlowNext ==
    \/ UpdateTaskStatuses
    \/ \E t \in TaskIds : StartTask(t)
    \/ \E t \in TaskIds : FinishTaskOk(t)
    \/ \E t \in TaskIds : FinishTaskFailed(t)
    \/ \E a \in ArtifactIds, st \in {"Placeholder", "Ready"} : AddArtifact(a, st)
    \/ \E a \in ArtifactIds : InvalidateDownstream(a)

FlowSpec == FlowInit /\ [][FlowNext]_vars

\* ------------------------------------------------------------ InvalSpec
\* invalidate_downstream applied to task graphs in arbitrary statuses
InputKinds == <<"Required", "Optional", "Placeholder">>
\* the inputs of task t are of the kind InputKinds holds at t's position
WithKind(task, t) ==
    [task EXCEPT !.inputs =
        [i \in 1..Len(task.inputs) |->
            [kind |-> InputKinds[((t - 1) % Len(InputKinds)) + 1],
             artifact |-> task.inputs[i].artifact]]]

InvalTaskStatuses == {"Ready", "Complete"}
InvalArtifactStatuses == {"Placeholder", "Ready"}

InvalInit ==
    /\ \E ts \in {x \in [1..NumTasks -> TaskShapes(InvArtifacts)] :
                     Links(x) <= FlowLinks /\ Unconstrained(x)} :
       \E st \in [1..NumTasks -> InvalTaskStatuses] :
          tasks = [t \in 1..NumTasks |-> [WithKind(ts[t], t) EXCEPT !.status = st[t]]]
    /\ artifacts \in [1..InvArtifacts -> InvalArtifactStatuses]
    /\ running = {} /\ occupied_groups = {} /\ occupied_resources = {}
    /\ NoEngine
    /\ NoRuntime
    /\ NoCheckpoints
    /\ NoQueue

InvalNext == \E a \in ArtifactIds : InvalidateDownstream(a)

InvalSpec == InvalInit /\ [][InvalNext]_vars

\* the closure of {changed} under: from an artifact, go to every output of
\* every task that has it as an input, whatever the task's status
ConsumerClosure(changed) ==
    LET RECURSIVE grow(_)
        grow(S) ==
            LET T == S \cup
                     UNION {{tasks[t].outputs[i] : i \in 1..Len(tasks[t].outputs)} :
                               t \in {u \in TaskIds : \E a \in S : task_consumes(u, a)}}
            IN IF T = S THEN S ELSE grow(T)
    IN grow({changed})

\* C11: for every task graph and every assignment of statuses, the set
\* invalidate_downstream computes for an artifact is the closure of that
\* artifact under the consumes relation, whatever the status of the tasks
\* on the way.
C11_InvalidationSetIsClosure ==
    \A a \in ArtifactIds : collect_invalidation_targets(a) = ConsumerClosure(a)

HasInputIn(t, inv) == \E i \in 1..Len(tasks[t].inputs) : tasks[t].inputs[i].artifact \in inv

\* C12: invalidate_downstream turns every Ready artifact of the invalidation
\* set into Invalidated, turns every Complete task with an input in the set
\* into Blocked with an empty waiting list, and leaves Complete every Complete
\* task with no input in the set.
C12_InvalidationEffects ==
    [][\A changed \in ArtifactIds :
          InvalidateDownstream(changed) =>
              \A inv \in {collect_invalidation_targets(changed)} :
              /\ \A a \in ArtifactIds :
                    (a \in inv /\ artifacts[a] = "Ready") => artifacts'[a] = "Invalidated"
              /\ \A t \in TaskIds :
                    is_complete(t) =>
                        IF HasInputIn(t, inv)
                        THEN tasks'[t].status = "Blocked" /\ tasks'[t].waiting_on = <<>>
                        ELSE tasks'[t].status = "Complete"]_vars

\* the producer of a changed artifact is still Complete, the artifact is
\* Invalidated and a task that consumes it was reset
C12_Witness ==
    \E t \in TaskIds, u \in TaskIds, a \in ArtifactIds :
        /\ t # u
        /\ tasks[t].status = "Complete" /\ tasks[t].outputs = <<a>>
        /\ artifacts[a] = "Invalidated"
        /\ tasks[u].status = "Blocked" /\ tasks[u].waiting_on = <<>>
        /\ task_consumes(u, a)

\* ------------------------------------------------------------ ChainSpec
\* the chain A -> B -> C ...: task t consumes the output of task t - 1 and
\* produces artifact t; the last task has no output
ChainInit ==
    /\ tasks = [t \in 1..ChainLen |->
                   NewTask(IF t = 1 THEN <<>> ELSE <<Required(t - 1)>>,
                           IF t = ChainLen THEN <<>> ELSE <<t>>,
                           NoGroup, NoResource)]
    /\ artifacts = [a \in 1..(ChainLen - 1) |-> "Absent"]
    /\ running = {} /\ occupied_groups = {} /\ occupied_resources = {}
    /\ NoEngine
    /\ NoRuntime
    /\ NoCheckpoints
    /\ NoQueue

ChainSpec == ChainInit /\ [][FlowNext]_vars

\* the chain right after invalidate_downstream on A's output, called with
\* every task Complete and every output Ready
ChainJustInvalidated ==
    /\ tasks[1].status = "Complete"
    /\ \A t \in TaskIds \ {1} : tasks[t].status = "Blocked" /\ tasks[t].waiting_on = <<>>
    /\ \A a \in ArtifactIds : artifacts[a] = "Invalidated"

\* C13: after invalidate_downstream on A's output in the all-Complete chain,
\* the next refresh makes B Ready again (so that B and then C are executed
\* again), A staying Complete.
C13_ChainRerunsAfterInvalidation ==
    [][(ChainJustInvalidated /\ UpdateTaskStatuses)
          => (tasks'[2].status = "Ready" /\ tasks'[1].status = "Complete")]_vars

\* C14: in every reachable state, each Complete task has every one of its
\* (primary) outputs recorded Ready.
C14_CompleteHasReadyOutputs ==
    \A t \in TaskIds :
        is_complete(t) =>
            \A i \in 1..Len(tasks[t].outputs) : artifacts[tasks[t].outputs[i]] = "Ready"

\* C15: in every reachable state, each Ready task has every Required input
\* in Ready or Placeholder status.
C15_ReadyHasAvailableInputs ==
    \A t \in TaskIds :
        is_ready(t) =>
            \A i \in 1..Len(tasks[t].inputs) :
                tasks[t].inputs[i].kind = "Required"
                    => artifacts[tasks[t].inputs[i].artifact] \in {"Ready", "Placeholder"}

\* C16: once a task is Complete, every scheduler step other than
\* invalidate_downstream (status refresh, start, finish, artifact recording)
\* leaves it Complete, and a Complete task is never among the tasks
\* get_runnable_tasks offers for dispatch.
C16_MonotonicCompletion ==
    [][\A t \in TaskIds :
          is_complete(t) =>
              /\ \A i \in 1..Len(get_runnable_tasks) : get_runnable_tasks[i] # t
              /\ \/ tasks'[t].status = "Complete"
                 \/ \E a \in ArtifactIds : InvalidateDownstream(a)]_vars

\* a task completed, the refresh then made its consumer Ready and the
\* consumer was started, all while the producer stayed Complete
C16_Witness ==
    \E t, u \in TaskIds, a \in ArtifactIds :
        /\ t # u
        /\ tasks[t].status = "Complete" /\ tasks[t].outputs = <<a>>
        /\ artifacts[a] = "Ready"
        /\ task_consumes(u, a) /\ tasks[u].status = "Running"

\* C17: every report execute_dag builds has exactly one step-report per
\* configured step, in declared configuration order, whatever the outcome,
\* steps that were never executed included.
C17_OneReportPerStepInOrder ==
    Finished =>
        /\ Len(step_reports) = Cardinality(Steps)
        /\ \A i \in 1..Len(step_reports) : step_reports[i].id = StepSeq[i]
        /\ \A i \in 1..Len(step_reports) : step_reports[i].status = reports[StepSeq[i]].status

\* a failed run whose report lists a step that was never dispatched, placed
\* before a step that was executed
C17_Witness ==
    /\ Finished /\ result = "err"
    /\ \E i, j \in 1..Len(step_reports) :
          /\ i < j
          /\ step_reports[i].id \notin Dispatched /\ step_reports[i].status = "Blocked"
          /\ step_reports[j].id \in Executed

\* ------------------------------------------------------------- vwf-cli run
\* write_manifest: workdir.join("run.json")
ManifestPath == "run.json"
NoContent == [kind |-> "absent"]
\* a run.json left in the workdir by an earlier run
StaleManifest == [kind |-> "json", steps |-> <<>>]
\* serde_json::to_vec_pretty(rep): the document names the step reports
Manifest(rep) == [kind |-> "json", steps |-> rep]

\* `vwf run` without --dry-run: the workflow of Init, and a workdir that
\* holds no run.json or one of an earlier run
CliInit ==
    /\ depends_on \in Workflows(NumSteps)
    /\ resume_output \in OutputChoices(NumSteps)
    /\ resume = FALSE
    /\ merged_vars = EmptyVars
    /\ pc = "start"
    /\ FreshRun
    /\ rerun = FALSE
    /\ executors = <<>>
    /\ NoScheduler
    /\ NoCheckpoints
    /\ NoQueue
    /\ command_allowlist = {}
    /\ planned_dirs = <<>> /\ planned_writes = <<>>
    /\ disk \in [{ManifestPath} -> {NoContent, StaleManifest}]
    /\ spawned = <<>> /\ calls = <<>>

\* run_real once Runner::run_with_options has returned: `?` passes an Err
\* on to the caller, write_manifest runs after an Ok
RunRealReturn ==
    /\ pc = "done"
    /\ pc' = "exited"
    /\ disk' = IF result = "ok"
               THEN [disk EXCEPT ![ManifestPath] = Manifest(step_reports)]
               ELSE disk
    /\ UNCHANGED <<queueVars, wfVars, schedVars, depends_on, resume_output, resume, merged_vars, completed,
                   failed, blocked, reports, runnable, last_runnable_count, result, error,
                   step_reports, trace, seen, probe, rerun, executors,
                   command_allowlist,
                   planned_dirs, planned_writes, spawned, calls>>

CliNext ==
    \/ \E r \in BOOLEAN, v \in VarMaps : RunRejected(r, v)
    \/ \E r \in BOOLEAN, v \in VarMaps : RunAccepted(r, v)
    \/ BreakEmpty
    \/ BreakNoProgress
    \/ BeginRound
    \/ \E f \in Files \cup {NoFile} : DispatchSkip(f)
    \/ \E f \in Files \cup {NoFile} : DispatchOk(f)
    \/ \E f \in Files \cup {NoFile}, e \in ErrorMessages : DispatchFailed(f, e)
    \/ RunRealReturn

CliSpec == CliInit /\ [][CliNext]_vars

\* C18: after a run in which some step is Failed or Blocked, the CLI run
\* command has persisted the Run Report as run.json in the workdir, as it
\* does after a successful run.
C18_FailedRunPersistsReport ==
    (/\ pc = "exited"
     /\ \E i \in 1..Len(step_reports) : step_reports[i].status \in {"Failed", "Blocked"})
        => disk[ManifestPath] = Manifest(step_reports)

\* ------------------------------------------------------------ DryRunRuntime
Dirs == {"out"}
Paths == {"a.txt", "b.txt"}
Contents == {"x", "y"}
Programs == {"echo", "ffmpeg"}

Text(c) == [kind |-> "text", text |-> c]

\* results of Runtime calls: Ok(value) and Err(anyhow message, its argument)
Ok(value) == [kind |-> "ok", value |-> value]
Err(msg, arg) == [kind |-> "err", msg |-> msg, arg |-> arg]

Call(op, arg, content, res) == [op |-> op, arg |-> arg, content |-> content, result |-> res]

\* DryRunRuntime::read_text taking the oldest recorded write of the path
dry_read_text_oldest(rel) ==
    LET hits == {i \in 1..Len(planned_writes) : planned_writes[i][1] = rel}
    IN IF hits = {} THEN Err("not found", rel)
       ELSE Ok(planned_writes[CHOOSE i \in hits : \A j \in hits : i <= j][2])

\* DryRunRuntime::read_text: planned_writes.iter().rev().find(path == rel)
dry_read_text(rel) ==
    LET hits == {i \in 1..Len(planned_writes) : planned_writes[i][1] = rel}
    IN IF hits = {} THEN Err("not found", rel)
       ELSE Ok(planned_writes[CHOOSE i \in hits : \A j \in hits : j <= i][2])

\* a fresh DryRunRuntime over a workdir that may already hold files
DryRunInit ==
    /\ NoEngine
    /\ NoScheduler
    /\ NoCheckpoints
    /\ NoQueue
    /\ command_allowlist = {}
    /\ planned_dirs = <<>> /\ planned_writes = <<>>
    /\ \E d \in [Dirs -> {NoContent, [kind |-> "dir"]}],
          f \in [Paths -> {NoContent} \cup {Text(c) : c \in Contents}] :
          disk = [p \in Dirs \cup Paths |-> IF p \in Dirs THEN d[p] ELSE f[p]]
    /\ spawned = <<>> /\ calls = <<>>

DryEnsureDir(rel) ==
    /\ Len(calls) < MaxCalls
    /\ planned_dirs' = Append(planned_dirs, rel)
    /\ calls' = Append(calls, Call("ensure_dir", rel, "", Ok(<<>>)))
    /\ UNCHANGED <<queueVars, wfVars, engineVars, schedVars, command_allowlist, planned_writes, disk, spawned>>

DryWriteText(rel, content) ==
    /\ Len(calls) < MaxCalls
    /\ planned_writes' = Append(planned_writes, <<rel, content>>)
    /\ calls' = Append(calls, Call("write_text", rel, content, Ok(<<>>)))
    /\ UNCHANGED <<queueVars, wfVars, engineVars, schedVars, command_allowlist, planned_dirs, disk, spawned>>

DryReadText(rel) ==
    /\ Len(calls) < MaxCalls
    /\ calls' = Append(calls, Call("read_text", rel, "", dry_read_text(rel)))
    /\ UNCHANGED <<queueVars, wfVars, engineVars, schedVars, command_allowlist, planned_dirs, planned_writes,
                   disk, spawned>>

DryRunCommand(prog) ==
    /\ Len(calls) < MaxCalls
    /\ calls' = Append(calls, Call("run_command", prog, "", Ok([status |-> 0, stdout |-> <<"[dry-run] would run ", prog>>])))
    /\ UNCHANGED <<queueVars, wfVars, engineVars, schedVars, command_allowlist, planned_dirs, planned_writes,
                   disk, spawned>>

DryRunNext ==
    \/ \E rel \in Dirs : DryEnsureDir(rel)
    \/ \E rel \in Paths, content \in Contents : DryWriteText(rel, content)
    \/ \E rel \in Paths : DryReadText(rel)
    \/ \E prog \in Programs : DryRunCommand(prog)

DryRunSpec == DryRunInit /\ [][DryRunNext]_vars

\* the arguments of the calls of one operation, in call order
RECURSIVE CallsOf(_, _)
CallsOf(log, op) ==
    IF log = <<>> THEN <<>>
    ELSE IF Head(log).op = op
         THEN <<IF op = "write_text" THEN <<Head(log).arg, Head(log).content>>
                ELSE Head(log).arg>> \o CallsOf(Tail(log), op)
         ELSE CallsOf(Tail(log), op)

\* every read_text of the log returned the content of the latest earlier
\* write_text to its path, and failed when there was none
ReadsFollowWrites(log) ==
    \A i \in 1..Len(log) :
        log[i].op = "read_text" =>
            LET earlier == {j \in 1..(i - 1) :
                               log[j].op = "write_text" /\ log[j].arg = log[i].arg}
            IN IF earlier = {} THEN log[i].result.kind = "err"
               ELSE log[i].result =
                        Ok(log[CHOOSE j \in earlier : \A k \in earlier : k <= j].content)

\* C19: under DryRunRuntime no call changes the filesystem or spawns a
\* process; planned_dirs and planned_writes are exactly the ensure_dir and
\* write_text calls in call order; read_text(p) returns the content of the
\* most recent write_text to p of this session and fails when there was none.
C19_DryRunRecordsOnly ==
    [][/\ disk' = disk /\ spawned' = spawned
       /\ planned_dirs' = CallsOf(calls', "ensure_dir")
       /\ planned_writes' = CallsOf(calls', "write_text")
       /\ ReadsFollowWrites(calls')]_vars

\* a path was written twice with different contents and then read back,
\* while the workdir holds another content under that path; a directory
\* that does not exist was planned
C19_Witness ==
    \E p \in Paths :
        /\ Len(calls) = 3
        /\ calls[1].op = "write_text" /\ calls[1].arg = p
        /\ calls[2].op = "write_text" /\ calls[2].arg = p
        /\ calls[1].content # calls[2].content
        /\ calls[3].op = "read_text" /\ calls[3].arg = p
        /\ calls[3].result = Ok(calls[2].content)
        /\ disk[p] = Text(calls[1].content)

\* ---------------------------------------------------- FsRuntime::run_command
\* what std::process::Command::output() can give for a program
ExitCodes == {0, 1}
SpawnOutcomes ==
    {[kind |-> "io_error", code |-> -1], [kind |-> "signal", code |-> -1]}
    \cup {[kind |-> "exit", code |-> c] : c \in ExitCodes}

\* the allow-list test taken as plain membership
command_rejected_when_absent(prog) == prog \notin command_allowlist

\* !self.command_allowlist.is_empty() && !self.command_allowlist.contains(prog)
command_rejected(prog) == command_allowlist # {} /\ prog \notin command_allowlist

\* the paths FsRuntime is called with, relative to the workdir
FsDirs == {"out", "sub"}
FsPaths == {"a.txt", "sub/b.txt"}

\* a fresh FsRuntime over an empty workdir, whose command_allowlist the
\* caller has set
FsInit ==
    /\ NoEngine
    /\ NoScheduler
    /\ NoCheckpoints
    /\ NoQueue
    /\ command_allowlist \in SUBSET Programs
    /\ planned_dirs = <<>> /\ planned_writes = <<>>
    /\ disk = [p \in FsDirs \cup FsPaths |-> NoContent]
    /\ spawned = <<>> /\ calls = <<>>

FsRunCommand(prog, outcome) ==
    /\ Len(calls) < MaxCalls
    /\ IF command_rejected(prog)
       THEN /\ calls' = Append(calls, Call("run_command", prog, "", Err("not allowed", prog)))
            /\ spawned' = spawned
       ELSE /\ spawned' = Append(spawned, prog)
            /\ calls' = Append(calls, Call("run_command", prog, "",
                  IF outcome.kind = "io_error" THEN Err("run", prog)
                  ELSE Ok([status |-> IF outcome.kind = "signal" THEN -1 ELSE outcome.code,
                           stdout |-> <<"output of ", prog>>])))
    /\ UNCHANGED <<queueVars, wfVars, engineVars, schedVars, command_allowlist, planned_dirs, planned_writes,
                   disk>>

\* FsRuntime::ensure_dir: create_dir_all(workdir/rel)
FsEnsureDir(rel) ==
    /\ Len(calls) < MaxCalls
    /\ disk' = [disk EXCEPT ![rel] = [kind |-> "dir"]]
    /\ calls' = Append(calls, Call("ensure_dir", rel, "", Ok(<<>>)))
    /\ UNCHANGED <<queueVars, wfVars, engineVars, schedVars, command_allowlist, planned_dirs, planned_writes,
                   spawned>>

\* FsRuntime::write_text: create_dir_all(parent), then write; the parent of
\* a path without a directory part is the workdir itself
FsWriteText(rel, content) ==
    /\ Len(calls) < MaxCalls
    /\ LET parent == IF rel = "sub/b.txt" THEN "sub" ELSE ""
       IN disk' = [p \in DOMAIN disk |->
                     IF p = rel THEN Text(content)
                     ELSE IF p = parent THEN [kind |-> "dir"]
                     ELSE disk[p]]
    /\ calls' = Append(calls, Call("write_text", rel, content, Ok(<<>>)))
    /\ UNCHANGED <<queueVars, wfVars, engineVars, schedVars, command_allowlist, planned_dirs, planned_writes,
                   spawned>>

FsNext ==
    \/ \E rel \in FsDirs : FsEnsureDir(rel)
    \/ \E rel \in FsPaths, content \in Contents : FsWriteText(rel, content)
    \/ \E prog \in Programs, outcome \in SpawnOutcomes : FsRunCommand(prog, outcome)

FsSpec == FsInit /\ [][FsNext]_vars

\* the programs of the run_command calls that were not turned away, in order
RECURSIVE AdmittedPrograms(_)
AdmittedPrograms(log) ==
    IF log = <<>> THEN <<>>
    ELSE IF Head(log).op = "run_command" /\ Head(log).result # Err("not allowed", Head(log).arg)
         THEN <<Head(log).arg>> \o AdmittedPrograms(Tail(log))
         ELSE AdmittedPrograms(Tail(log))

\* C20: FsRuntime::run_command answers with the 'not allowed' error exactly
\* when the allow-list is non-empty and lacks the program, and a rejected
\* program is never spawned; with an empty allow-list every program is
\* spawned.
C20_AllowListGate ==
    /\ \A i \in 1..Len(calls) :
          calls[i].op = "run_command" =>
              (calls[i].result = Err("not allowed", calls[i].arg)
                  <=> (command_allowlist # {} /\ calls[i].arg \notin command_allowlist))
    /\ spawned = AdmittedPrograms(calls)

\* under a non-empty allow-list one program was spawned and another was
\* rejected
C20_Witness ==
    /\ command_allowlist # {}
    /\ \E i, j \in 1..Len(calls) :
          /\ calls[i].result.kind = "ok" /\ calls[i].arg \in command_allowlist
          /\ calls[j].result = Err("not allowed", calls[j].arg)
          /\ calls[j].arg \notin command_allowlist
    /\ Len(spawned) = 1

\* --------------------------------------------------- StateStore, state.json
StatePath == "state.json"
CheckpointNames == {"review_text", "final_cut"}

\* #[serde(rename_all = "snake_case")] on the enums of the state
SnakeCase(s) ==
    CASE s = "Blocked" -> "blocked" [] s = "Ready" -> "ready" [] s = "Running" -> "running"
      [] s = "Complete" -> "complete" [] s = "Failed" -> "failed" [] s = "Skipped" -> "skipped"
      [] s = "Missing" -> "missing" [] s = "Placeholder" -> "placeholder"
      [] s = "Invalidated" -> "invalidated"
      [] s = "Required" -> "required" [] s = "Optional" -> "optional"

\* serde_json::to_string_pretty(state): the JSON document, its values tagged
\* where JSON has to tell null, number, string and object apart
to_string_pretty(state) ==
    LET null == [j |-> "null"]
        f64(x) == IF x.class = "finite" THEN [j |-> "num", v |-> x.value] ELSE null
        opt(x, none) == IF x = none THEN null ELSE [j |-> "str", v |-> x]
        input(i) ==
            IF i.kind = "Placeholder"
            THEN [type |-> SnakeCase(i.kind), artifact |-> i.artifact,
                  placeholder_kind |->
                      [silent_audio |-> [duration_secs |-> f64(i.duration_secs)]]]
            ELSE [type |-> SnakeCase(i.kind), artifact |-> i.artifact]
        status(t) ==
            CASE t.status = "Blocked" ->
                    [j |-> "obj", v |-> [blocked |-> [waiting_on |-> t.waiting_on]]]
              [] t.status = "Failed" ->
                    [j |-> "obj", v |-> [failed |-> [error |-> t.error]]]
              [] t.status = "Skipped" ->
                    [j |-> "obj", v |-> [skipped |-> [reason |-> t.reason]]]
              [] OTHER -> [j |-> "str", v |-> SnakeCase(t.status)]
        task(t) ==
            [inputs |-> [k \in 1..Len(t.inputs) |-> input(t.inputs[k])],
             outputs |-> [k \in 1..Len(t.outputs) |->
                             [artifact |-> t.outputs[k], primary |-> TRUE]],
             constraints |-> [sequential_group |-> opt(t.sequential_group, NoGroup),
                              resource |-> opt(t.resource, NoResource)],
             status |-> status(t)]
    IN [workflow_name |-> state.header.workflow_name,
        version |-> state.header.version,
        inputs |-> state.header.inputs,
        complete |-> state.header.complete,
        error |-> opt(state.header.error, "None"),
        tasks |-> [t \in DOMAIN state.tasks |-> task(state.tasks[t])],
        artifacts |-> [a \in {x \in DOMAIN state.artifacts : state.artifacts[x] # "Absent"} |->
                          [status |-> SnakeCase(state.artifacts[a])]],
        checkpoints |-> [n \in DOMAIN state.checkpoints |->
                            [name |-> n, approved |-> state.checkpoints[n].approved]]]

\* a file of length 0, as File::create leaves it: no JSON value to read
EmptyFile == [kind |-> "text", text |-> [j |-> "eof"]]

\* serde_json::from_str::<WorkflowState>(content): an empty document is an
\* error, an f64 field refuses null, and a struct variant of TaskStatus
\* (Blocked, Failed, Skipped) refuses a plain string
from_str(doc) ==
    LET name(x) == CHOOSE n \in {"Blocked", "Ready", "Running", "Complete", "Failed",
                                 "Skipped", "Missing", "Placeholder", "Invalidated",
                                 "Required", "Optional"} : SnakeCase(n) = x
        un_opt(x, none) == IF x.j = "null" THEN none ELSE x.v
        input(i) ==
            IF i.type = "placeholder"
            THEN [kind |-> name(i.type), artifact |-> i.artifact,
                  duration_secs |->
                      [class |-> "finite",
                       value |-> i.placeholder_kind.silent_audio.duration_secs.v]]
            ELSE [kind |-> name(i.type), artifact |-> i.artifact]
        task(t) ==
            [inputs |-> [k \in 1..Len(t.inputs) |-> input(t.inputs[k])],
             outputs |-> [k \in 1..Len(t.outputs) |-> t.outputs[k].artifact],
             sequential_group |-> un_opt(t.constraints.sequential_group, NoGroup),
             resource |-> un_opt(t.constraints.resource, NoResource),
             status |-> IF t.status.j = "obj"
                        THEN name(CHOOSE variant \in DOMAIN t.status.v : TRUE)
                        ELSE name(t.status.v),
             waiting_on |-> IF t.status.j = "obj" /\ "blocked" \in DOMAIN t.status.v
                            THEN t.status.v.blocked.waiting_on ELSE <<>>,
             error |-> IF t.status.j = "obj" /\ "failed" \in DOMAIN t.status.v
                       THEN t.status.v.failed.error ELSE "",
             reason |-> IF t.status.j = "obj" /\ "skipped" \in DOMAIN t.status.v
                        THEN t.status.v.skipped.reason ELSE ""]
        unit_for_struct ==
            \E t \in DOMAIN doc.tasks :
                /\ doc.tasks[t].status.j = "str"
                /\ doc.tasks[t].status.v \in {"blocked", "failed", "skipped"}
        null_f64 ==
            \E t \in DOMAIN doc.tasks : \E k \in 1..Len(doc.tasks[t].inputs) :
                /\ doc.tasks[t].inputs[k].type = "placeholder"
                /\ doc.tasks[t].inputs[k].placeholder_kind.silent_audio.duration_secs.j
                       = "null"
    IN IF doc = EmptyFile.text THEN Err("Failed to parse", StatePath)
       ELSE IF null_f64 \/ unit_for_struct THEN Err("Failed to parse", StatePath)
       ELSE Ok([header |-> [workflow_name |-> doc.workflow_name,
                            version |-> doc.version, inputs |-> doc.inputs,
                            complete |-> doc.complete,
                            error |-> un_opt(doc.error, "None")],
                tasks |-> [t \in DOMAIN doc.tasks |-> task(doc.tasks[t])],
                artifacts |-> [a \in 1..NumArtifacts |->
                                  IF a \in DOMAIN doc.artifacts
                                  THEN name(doc.artifacts[a].status) ELSE "Absent"],
                checkpoints |-> [n \in DOMAIN doc.checkpoints |->
                                    [approved |-> doc.checkpoints[n].approved]]])

\* WorkflowState::checkpoint_pending
checkpoint_pending(name) == name \in DOMAIN checkpoints /\ ~checkpoints[name].approved

\* the task shapes a stored state holds: Blocked, Ready, Failed, Skipped and
\* Complete tasks; the last has a Placeholder input
\* of kind SilentAudio { duration_secs }, an f64 that is finite or infinite
StoredTasks ==
    {NewTask(<<>>, <<1>>, NoGroup, NoResource),
     [NewTask(<<Required(1)>>, <<>>, "tts", NoResource) EXCEPT !.status = "Ready"],
     [NewTask(<<Required(1)>>, <<>>, NoGroup, "gpu")
         EXCEPT !.waiting_on = <<WaitArtifact(1)>>],
     [NewTask(<<>>, <<>>, NoGroup, NoResource)
         EXCEPT !.status = "Failed", !.error = "boom"],
     [NewTask(<<>>, <<>>, NoGroup, NoResource)
         EXCEPT !.status = "Skipped", !.reason = "optional input missing"]}
    \cup {[NewTask(<<[kind |-> "Placeholder", artifact |-> 1, duration_secs |-> d]>>,
                    <<>>, NoGroup, NoResource) EXCEPT !.status = "Complete"] :
              d \in {[class |-> "finite", value |-> 5], [class |-> "infinite"]}}

\* a WorkflowState built by the caller, a StateStore over a workdir that
\* holds no state.json
StoreInit ==
    /\ tasks \in [1..NumTasks -> StoredTasks]
    /\ artifacts \in [1..NumArtifacts -> {"Absent", "Ready"}]
    /\ running = {} /\ occupied_groups = {} /\ occupied_resources = {}
    /\ header \in {[workflow_name |-> "test_workflow", version |-> 1,
                    inputs |-> [episode |-> 17], complete |-> c, error |-> e] :
                       c \in {FALSE}, e \in {"None", "boom"}}
    /\ checkpoints = <<>>
    /\ NoQueue
    /\ NoEngine
    /\ command_allowlist = {}
    /\ planned_dirs = <<>> /\ planned_writes = <<>>
    /\ disk = [p \in {StatePath} |-> NoContent]
    /\ spawned = <<>> /\ calls = <<>>

\* StateStore::save
Save ==
    /\ Len(calls) < MaxCalls
    /\ \E state \in {[header |-> header, tasks |-> tasks, artifacts |-> artifacts,
                       checkpoints |-> checkpoints]} :
          /\ disk' = [disk EXCEPT ![StatePath] = Text(to_string_pretty(state))]
          /\ calls' = Append(calls, Call("save", StatePath, state, Ok(<<>>)))
    /\ UNCHANGED <<queueVars, wfVars, engineVars, schedVars, command_allowlist, planned_dirs,
                   planned_writes, spawned>>

\* StateStore::load: Ok(None) is Ok(<<>>), Ok(Some(state)) is Ok(<<state>>)
Load ==
    /\ Len(calls) < MaxCalls
    /\ calls' = Append(calls, Call("load", StatePath, "",
          IF disk[StatePath] = NoContent THEN Ok(<<>>)
          ELSE IF from_str(disk[StatePath].text).kind = "err"
               THEN from_str(disk[StatePath].text)
               ELSE Ok(<<from_str(disk[StatePath].text).value>>)))
    /\ UNCHANGED <<queueVars, wfVars, engineVars, schedVars, command_allowlist, planned_dirs,
                   planned_writes, disk, spawned>>

\* StateStore::exists
Exists ==
    /\ Len(calls) < MaxCalls
    /\ calls' = Append(calls, Call("exists", StatePath, "", Ok(disk[StatePath] # NoContent)))
    /\ UNCHANGED <<queueVars, wfVars, engineVars, schedVars, command_allowlist, planned_dirs,
                   planned_writes, disk, spawned>>

\* the caller records that a checkpoint was reached (state.checkpoints.insert);
\* the log keeps the tasks that were Ready, Running or Complete by then
ReachCheckpoint(name) ==
    /\ Len(calls) < MaxCalls
    /\ name \notin DOMAIN checkpoints
    /\ checkpoints' = [n \in DOMAIN checkpoints \cup {name} |->
                          IF n = name THEN [approved |-> FALSE] ELSE checkpoints[n]]
    /\ calls' = Append(calls, Call("checkpoint_reached", name,
          {t \in TaskIds : tasks[t].status \in {"Ready", "Running", "Complete"}}, Ok(<<>>)))
    /\ UNCHANGED <<queueVars, header, engineVars, schedVars, command_allowlist, planned_dirs,
                   planned_writes, disk, spawned>>

\* approve_checkpoint creating the entry when the name is unknown
ApproveCheckpoint_or_insert(name) ==
    /\ Len(calls) < MaxCalls
    /\ checkpoints' = [n \in DOMAIN checkpoints \cup {name} |-> [approved |-> n = name
                          \/ (n \in DOMAIN checkpoints /\ checkpoints[n].approved)]]
    /\ calls' = Append(calls, Call("approve_checkpoint", name, "", Ok(<<>>)))
    /\ UNCHANGED <<queueVars, header, engineVars, schedVars, command_allowlist, planned_dirs,
                   planned_writes, disk, spawned>>

\* WorkflowState::approve_checkpoint
ApproveCheckpoint(name) ==
    /\ Len(calls) < MaxCalls
    /\ IF name \in DOMAIN checkpoints
       THEN /\ checkpoints' = [checkpoints EXCEPT ![name].approved = TRUE]
            /\ calls' = Append(calls, Call("approve_checkpoint", name, "", Ok(<<>>)))
       ELSE /\ checkpoints' = checkpoints
            /\ calls' = Append(calls, Call("approve_checkpoint", name, "",
                                           Err("Checkpoint not found", name)))
    /\ UNCHANGED <<queueVars, header, engineVars, schedVars, command_allowlist, planned_dirs,
                   planned_writes, disk, spawned>>

StoreNext ==
    \/ Save
    \/ Load
    \/ Exists
    \/ \E name \in CheckpointNames : ReachCheckpoint(name)
    \/ \E name \in CheckpointNames : ApproveCheckpoint(name)

StoreSpec == StoreInit /\ [][StoreNext]_vars

\* the latest save among the first n calls of the log (0: none)
LastSave(n) ==
    LET saves == {i \in 1..n : calls[i].op = "save"}
    IN IF saves = {} THEN 0 ELSE CHOOSE i \in saves : \A j \in saves : j <= i

\* C21: load returns None while state.json does not exist; after a save,
\* exists() is true and load returns a state equal to the saved one.
C21_SaveLoadRoundTrip ==
    \A i \in 1..Len(calls) :
        /\ calls[i].op = "load" =>
              calls[i].result = IF LastSave(i - 1) = 0 THEN Ok(<<>>)
                                ELSE Ok(<<calls[LastSave(i - 1)].content>>)
        /\ calls[i].op = "exists" => calls[i].result = Ok(LastSave(i - 1) # 0)

\* ------------------------------------------------- checkpoints and dispatch
\* the chain of ChainInit driven by the scheduler while checkpoints are
\* reached and approved
GateNext ==
    \/ UpdateTaskStatuses
    \/ \E t \in TaskIds : StartTask(t)
    \/ \E t \in TaskIds : FinishTaskOk(t)
    \/ \E a \in ArtifactIds : AddArtifact(a, "Ready")
    \/ \E name \in CheckpointNames : ReachCheckpoint(name)
    \/ \E name \in CheckpointNames : ApproveCheckpoint(name)

GateSpec == ChainInit /\ [][GateNext]_vars

\* C22: checkpoint_pending(name) is true exactly when a checkpoint of that
\* name exists and is not approved; an approved checkpoint is never pending
\* again; approve_checkpoint makes a known checkpoint not pending, and on an
\* unknown name it returns an error and leaves the workflow state unchanged.
C22_CheckpointApproval ==
    [][\A name \in CheckpointNames :
          /\ checkpoint_pending(name)
                <=> \E n \in DOMAIN checkpoints : n = name /\ checkpoints[n].approved = FALSE
          /\ (name \in DOMAIN checkpoints /\ checkpoints[name].approved)
                => (name \in DOMAIN checkpoints' /\ checkpoints'[name].approved)
          /\ (/\ Len(calls') = Len(calls) + 1
              /\ calls'[Len(calls')].op = "approve_checkpoint"
              /\ calls'[Len(calls')].arg = name)
                => IF name \in DOMAIN checkpoints
                   THEN /\ calls'[Len(calls')].result.kind = "ok"
                        /\ name \in DOMAIN checkpoints' /\ checkpoints'[name].approved
                   ELSE /\ calls'[Len(calls')].result = Err("Checkpoint not found", name)
                        /\ UNCHANGED <<queueVars, header, checkpoints, tasks, artifacts>>]_vars

\* one checkpoint was approved after it had been reached, and approving
\* another name that was never reached was refused
C22_Witness ==
    \E i, j \in 1..Len(calls) :
        /\ calls[i].op = "approve_checkpoint" /\ calls[i].result.kind = "ok"
        /\ calls[i].arg \in DOMAIN checkpoints /\ ~checkpoint_pending(calls[i].arg)
        /\ calls[j].op = "approve_checkpoint" /\ calls[j].result.kind = "err"
        /\ calls[j].arg \notin DOMAIN checkpoints

\* the tasks that were Ready, Running or Complete when the checkpoint was
\* reached: the frontier before the checkpoint
Frontier(name) ==
    UNION {calls[i].content :
              i \in {j \in 1..Len(calls) :
                        calls[j].op = "checkpoint_reached" /\ calls[j].arg = name}}

\* C23: while a reached checkpoint is not approved, get_runnable_tasks
\* selects no task beyond it, that is, no task outside the frontier the
\* workflow had when the checkpoint was reached.
C23_PendingCheckpointBlocksDispatch ==
    \A name \in CheckpointNames :
        checkpoint_pending(name) =>
            \A i \in 1..Len(get_runnable_tasks) : get_runnable_tasks[i] \in Frontier(name)

\* ------------------------------------------------------------------ GpuQueue
Queues == {"tts", "lipsync"}

\* GpuQueue::new(tts_capacity, lipsync_capacity), NumCallers tasks holding a
\* clone of the queue
QueueInit ==
    /\ capacity \in [Queues -> 0..MaxCapacity]
    /\ permits = capacity
    /\ callers = [k \in 1..NumCallers |-> [queue |-> "none", at |-> "idle"]]
    /\ waiters = [q \in Queues |-> <<>>]
    /\ assigned = {}
    /\ NoEngine
    /\ NoScheduler
    /\ NoRuntime
    /\ NoCheckpoints

\* a task calls run_tts or run_lipsync: its future exists and has not been
\* polled yet
CallRun(k, q) ==
    /\ callers[k].at = "idle"
    /\ callers' = [callers EXCEPT ![k] = [queue |-> q, at |-> "acquire"]]
    /\ UNCHANGED <<capacity, permits, waiters, assigned,
                   engineVars, schedVars, rtVars, wfVars>>

\* acquire() handing out a permit without looking at what the semaphore has left
Acquire_unguarded(k) ==
    /\ callers[k].at = "acquire"
    /\ permits' = [permits EXCEPT ![callers[k].queue] = @ - 1]
    /\ callers' = [callers EXCEPT ![k].at = "task"]
    /\ waiters' = [waiters EXCEPT ![callers[k].queue] = SelectSeq(@, LAMBDA w : w # k)]
    /\ assigned' = assigned \ {k}
    /\ UNCHANGED <<capacity, engineVars, schedVars, rtVars, wfVars>>

\* a poll in which self.<queue>.acquire().await returns a permit, and the task
\* starts executing: the permit is one handed to this waiter by a completed
\* task, or one the semaphore has left
Acquire(k) ==
    /\ callers[k].at = "acquire"
    /\ IF k \in assigned
       THEN /\ assigned' = assigned \ {k}
            /\ UNCHANGED <<permits, waiters>>
       ELSE /\ permits[callers[k].queue] > 0
            /\ permits' = [permits EXCEPT ![callers[k].queue] = @ - 1]
            /\ waiters' = [waiters EXCEPT ![callers[k].queue] =
                               SelectSeq(@, LAMBDA w : w # k)]
            /\ UNCHANGED assigned
    /\ callers' = [callers EXCEPT ![k].at = "task"]
    /\ UNCHANGED <<capacity, engineVars, schedVars, rtVars, wfVars>>

\* the first poll of acquire() while the semaphore has no permit left: the
\* future joins the end of the semaphore's wait list and stays pending
AcquirePending(k) ==
    /\ callers[k].at = "acquire"
    /\ k \notin assigned
    /\ permits[callers[k].queue] = 0
    /\ \A i \in 1..Len(waiters[callers[k].queue]) : waiters[callers[k].queue][i] # k
    /\ waiters' = [waiters EXCEPT ![callers[k].queue] = Append(@, k)]
    /\ UNCHANGED <<capacity, permits, callers, assigned,
                   engineVars, schedVars, rtVars, wfVars>>

\* task.await completes and the permit is forgotten instead of dropped
Complete_forgets_permit(k) ==
    /\ callers[k].at = "task"
    /\ callers' = [callers EXCEPT ![k].at = "returned"]
    /\ UNCHANGED <<capacity, permits, waiters, assigned,
                   engineVars, schedVars, rtVars, wfVars>>

\* task.await completes; _permit is dropped on return: the permit goes to the
\* oldest pending waiter of the semaphore, or back to the semaphore when no
\* future waits
Complete(k) ==
    /\ callers[k].at = "task"
    /\ IF waiters[callers[k].queue] # <<>>
       THEN /\ assigned' = assigned \cup {Head(waiters[callers[k].queue])}
            /\ waiters' = [waiters EXCEPT ![callers[k].queue] = Tail(@)]
            /\ UNCHANGED permits
       ELSE /\ permits' = [permits EXCEPT ![callers[k].queue] = @ + 1]
            /\ UNCHANGED <<waiters, assigned>>
    /\ callers' = [callers EXCEPT ![k].at = "returned"]
    /\ UNCHANGED <<capacity, engineVars, schedVars, rtVars, wfVars>>

QueueNext ==
    \/ \E k \in DOMAIN callers, q \in Queues : CallRun(k, q)
    \/ \E k \in DOMAIN callers : Acquire(k)
    \/ \E k \in DOMAIN callers : AcquirePending(k)
    \/ \E k \in DOMAIN callers : Complete(k)

QueueSpec == QueueInit /\ [][QueueNext]_vars

Executing(q) == {k \in DOMAIN callers : callers[k].queue = q /\ callers[k].at = "task"}

\* callers of queue q that hold a permit: executing, or handed one while waiting
Holding(q) == Executing(q) \cup {k \in assigned : callers[k].queue = q}

\* C24: for a GpuQueue with TTS capacity c, at most c tasks passed to run_tts
\* are executing at any moment under any interleaving of the callers; with
\* capacity 1 they are serialized. Every permit of the capacity is with an
\* executing task, with a waiter it was handed to, or left in the semaphore.
C24_TtsConcurrencyBound ==
    /\ Cardinality(Executing("tts")) <= capacity["tts"]
    /\ Cardinality(Holding("tts")) + permits["tts"] = capacity["tts"]

\* capacity 1, one TTS task executing while two others wait for the permit,
\* one of them polled and in the wait list
C24_Witness ==
    /\ capacity["tts"] = 1
    /\ Cardinality(Executing("tts")) = 1
    /\ Cardinality({k \in DOMAIN callers :
                       callers[k].queue = "tts" /\ callers[k].at = "acquire"}) = 2
    /\ Len(waiters["tts"]) = 1

\* ------------------------------------------- render_template, on characters
\* the characters templates and values are made of: braces, a name
\* character ([a-zA-Z0-9_\-\.]) and whitespace (\s)
TemplateChars == {"{", "}", "a", " "}

\* variable maps: names and values are strings of TemplateChars
TextVarMaps ==
    {[k \in {} |-> <<>>]} \cup
    {[k \in {<<"a">>} |-> v] : v \in {<<"a">>, <<"{", "a", "}">>, <<>>}}

\* render_template: the regex \{\{\s*([a-zA-Z0-9_\-\.]+)\s*\}\} is matched
\* leftmost first over `input`; text between matches is copied, a match is
\* replaced by the value of its name, the first unknown name is the error
render_template_text(input, vs) ==
    LET at(i) == IF i <= Len(input) THEN input[i] ELSE ""
        RECURSIVE ws(_), nm(_), scan(_, _)
        ws(i) == IF at(i) = " " THEN ws(i + 1) ELSE i
        nm(i) == IF at(i) = "a" THEN nm(i + 1) ELSE i
        name_from(i) == ws(i + 2)
        name_to(i) == nm(name_from(i))
        close(i) == ws(name_to(i))
        matches(i) ==
            /\ at(i) = "{" /\ at(i + 1) = "{"
            /\ name_to(i) > name_from(i)
            /\ at(close(i)) = "}" /\ at(close(i) + 1) = "}"
        key(i) == SubSeq(input, name_from(i), name_to(i) - 1)
        scan(i, out) ==
            IF i > Len(input) THEN Ok(out)
            ELSE IF matches(i)
                 THEN IF key(i) \in DOMAIN vs
                      THEN scan(close(i) + 2, out \o vs[key(i)])
                      ELSE Err("Missing template var", key(i))
                 ELSE scan(i + 1, Append(out, input[i]))
    IN scan(1, <<>>)

\* nothing but render_template is called
RenderInit ==
    /\ NoEngine
    /\ NoScheduler
    /\ NoRuntime
    /\ NoCheckpoints
    /\ NoQueue

\* render_template(input, vars) on a template and a variable map
RenderTemplate ==
    /\ calls = <<>>
    /\ \E input \in BoundedSeqs(TemplateChars, MaxTemplateLen), vs \in TextVarMaps :
          calls' = <<Call("render_template", input, vs, render_template_text(input, vs))>>
    /\ UNCHANGED <<queueVars, wfVars, engineVars, schedVars, command_allowlist,
                   planned_dirs, planned_writes, disk, spawned>>

\* the string render_template returned is rendered again with the same map
RenderAgain ==
    /\ Len(calls) = 1
    /\ calls[1].result.kind = "ok"
    /\ calls' = Append(calls, Call("render_template", calls[1].result.value,
          calls[1].content, render_template_text(calls[1].result.value, calls[1].content)))
    /\ UNCHANGED <<queueVars, wfVars, engineVars, schedVars, command_allowlist,
                   planned_dirs, planned_writes, disk, spawned>>

RenderNext ==
    \/ RenderTemplate
    \/ RenderAgain

RenderSpec == RenderInit /\ [][RenderNext]_vars

\* some value of the map contains "{{"
ValueOpensToken(vs) ==
    \E k \in DOMAIN vs : \E i \in 1..(Len(vs[k]) - 1) : vs[k][i] = "{" /\ vs[k][i + 1] = "{"

\* C25: when no variable value contains "{{", rendering the result of a
\* successful render_template again with the same map returns the same
\* string; and a failed rendering names a variable absent from the map.
C25_RenderIdempotent ==
    /\ \A i \in 1..Len(calls) :
          calls[i].result.kind = "err" => calls[i].result.arg \notin DOMAIN calls[i].content
    /\ (Len(calls) = 2 /\ ~ValueOpensToken(calls[1].content))
          => calls[2].result = calls[1].result

\* ------------------------------------------------------- parallel dispatch
\* the caller starts every task one get_runnable_tasks call returned:
\* start_task and the Running mark for each, before any of them finishes
StartRunnable ==
    LET batch == {get_runnable_tasks[i] : i \in 1..Len(get_runnable_tasks)}
    IN /\ batch # {}
       /\ running' = running \cup batch
       /\ occupied_groups' = occupied_groups \cup
             ({tasks[t].sequential_group : t \in batch} \ {NoGroup})
       /\ occupied_resources' = occupied_resources \cup
             ({tasks[t].resource : t \in batch} \ {NoResource})
       /\ tasks' = [t \in TaskIds |->
             IF t \in batch THEN [tasks[t] EXCEPT !.status = "Running"] ELSE tasks[t]]
       /\ UNCHANGED <<artifacts, engineVars, rtVars, wfVars, queueVars>>

ParallelNext ==
    \/ UpdateTaskStatuses
    \/ StartRunnable
    \/ \E t \in TaskIds : FinishTaskOk(t)
    \/ \E t \in TaskIds : FinishTaskFailed(t)
    \/ \E a \in ArtifactIds, st \in {"Placeholder", "Ready"} : AddArtifact(a, st)

ParallelSpec == SchedInit /\ [][ParallelNext]_vars

\* C26: when every task returned by one get_runnable_tasks call is started
\* before any of them finishes, no two tasks that are Running together
\* declare the same sequential_group or the same resource.
C26_ParallelStartExclusive ==
    \A t \in TaskIds : \A u \in TaskIds :
        (t # u /\ tasks[t].status = "Running" /\ tasks[u].status = "Running")
            => ~SharesConstraint(t, u)

\* C27: after any sequence of start_task and finish_task calls, the occupied
\* sets hold exactly the groups and resources declared by the tasks in
\* running: occupied while some running task declares it, free when none does.
C27_OccupiedMatchesRunning ==
    /\ occupied_groups = {tasks[t].sequential_group : t \in running} \ {NoGroup}
    /\ occupied_resources = {tasks[t].resource : t \in running} \ {NoResource}

\* ------------------------------------------------ inputs of all three kinds
\* workflows over StatusArtifacts artifacts whose tasks have up to two inputs,
\* each of any kind and on any artifact, and at most one output, with at most
\* StatusLinks inputs and outputs in all; at most one task is marked Skipped
\* by the caller, the others are as Task::new leaves them
StatusInit ==
    /\ \E ts \in {x \in [1..NumTasks ->
                          {NewTask(ins, outs, NoGroup, NoResource) :
                              ins \in BoundedSeqs(
                                  {[kind |-> k, artifact |-> a] :
                                      k \in {"Required", "Optional", "Placeholder"},
                                      a \in 1..StatusArtifacts}, 2),
                              outs \in BoundedSeqs(1..StatusArtifacts, 1)}] :
                     Links(x) <= StatusLinks} :
       \E skipped \in {S \in SUBSET (1..NumTasks) : Cardinality(S) <= 1} :
          tasks = [t \in 1..NumTasks |->
                     [ts[t] EXCEPT
                        !.status = IF t \in skipped THEN "Skipped" ELSE "Blocked",
                        !.reason = IF t \in skipped THEN "optional input missing" ELSE ""]]
    /\ artifacts = [a \in 1..StatusArtifacts |-> "Absent"]
    /\ running = {} /\ occupied_groups = {} /\ occupied_resources = {}
    /\ NoEngine
    /\ NoRuntime
    /\ NoCheckpoints
    /\ NoQueue

\* the scheduler driven through refresh, dispatch, completion and failure,
\* while the caller adds and replaces artifacts of every status
StatusNext ==
    \/ UpdateTaskStatuses
    \/ \E t \in TaskIds : StartTask(t)
    \/ \E t \in TaskIds : FinishTaskOk(t)
    \/ \E t \in TaskIds : FinishTaskFailed(t)
    \/ \E a \in ArtifactIds, st \in {"Missing", "Placeholder", "Ready", "Invalidated"} :
          AddArtifact(a, st)

StatusSpec == StatusInit /\ [][StatusNext]_vars

\* the Required inputs of task t are all Ready or Placeholder
RequiredInputsAvailable(t) ==
    \A i \in 1..Len(tasks[t].inputs) :
        tasks[t].inputs[i].kind = "Required"
            => artifacts[tasks[t].inputs[i].artifact] \in {"Ready", "Placeholder"}

\* C28: update_task_statuses leaves every Running, Complete, Failed or
\* Skipped task as it is and changes no artifact; every other task becomes
\* Ready if all of its Required inputs are Ready or Placeholder and Blocked
\* otherwise.
C28_UpdateTaskStatusesEffect ==
    [][UpdateTaskStatuses =>
          /\ artifacts' = artifacts
          /\ \A t \in TaskIds :
                IF tasks[t].status \in {"Running", "Complete", "Failed", "Skipped"}
                THEN tasks'[t] = tasks[t]
                ELSE tasks'[t].status =
                        IF RequiredInputsAvailable(t) THEN "Ready" ELSE "Blocked"]_vars

\* a task with two Required inputs on different artifacts, one Ready and one
\* replaced by an Invalidated artifact, is Blocked on the second alone, next
\* to a Failed task whose Required input is the Ready one
C28_Witness ==
    \E t, u \in TaskIds :
        /\ t # u
        /\ tasks[t].status = "Blocked"
        /\ Len(tasks[t].inputs) = 2
        /\ tasks[t].inputs[1].kind = "Required" /\ tasks[t].inputs[2].kind = "Required"
        /\ artifacts[tasks[t].inputs[1].artifact] = "Ready"
        /\ artifacts[tasks[t].inputs[2].artifact] = "Invalidated"
        /\ tasks[t].waiting_on = <<WaitArtifact(tasks[t].inputs[2].artifact)>>
        /\ tasks[u].status = "Failed"
        /\ Len(tasks[u].inputs) = 1
        /\ tasks[u].inputs[1].kind = "Required"
        /\ tasks[u].inputs[1].artifact = tasks[t].inputs[1].artifact

\* the Required inputs of task t that are neither Ready nor Placeholder, in
\* the order of the task's input list
UnsatisfiedRequired(t) ==
    SelectSeq(tasks[t].inputs,
              LAMBDA i : i.kind = "Required" /\ artifacts[i.artifact] \notin {"Ready", "Placeholder"})

\* C29: after update_task_statuses the waiting_on list of a Blocked task has
\* one entry per unsatisfied Required input, in input order: the id of a
\* task that lists the artifact among its outputs, or the artifact token
\* when no task does; inputs of the other kinds add no entry, and a task
\* whose unsatisfied inputs are all Optional or Placeholder becomes Ready.
C29_WaitingOnEntries ==
    [][UpdateTaskStatuses =>
          \A t \in TaskIds :
              /\ tasks'[t].status = "Blocked" =>
                    /\ Len(tasks'[t].waiting_on) = Len(UnsatisfiedRequired(t))
                    /\ \A k \in 1..Len(UnsatisfiedRequired(t)) :
                          LET a == UnsatisfiedRequired(t)[k].artifact
                              makers == {p \in TaskIds :
                                           \E o \in 1..Len(tasks[p].outputs) : tasks[p].outputs[o] = a}
                          IN IF makers = {}
                             THEN tasks'[t].waiting_on[k] = WaitArtifact(a)
                             ELSE \E p \in makers : tasks'[t].waiting_on[k] = WaitTask(p)
              /\ (tasks[t].status \in {"Blocked", "Ready"} /\ UnsatisfiedRequired(t) = <<>>)
                    => tasks'[t].status = "Ready"]_vars

\* a task whose only input is an Optional one on a Missing artifact is Ready,
\* next to a Blocked task with a Placeholder and a Required input on
\* different artifacts, neither available, whose waiting_on list has the one
\* entry of the Required input
C29_Witness ==
    \E t, u \in TaskIds :
        /\ tasks[t].status = "Ready"
        /\ Len(tasks[t].inputs) = 1
        /\ tasks[t].inputs[1].kind = "Optional"
        /\ artifacts[tasks[t].inputs[1].artifact] = "Missing"
        /\ tasks[u].status = "Blocked"
        /\ Len(tasks[u].inputs) = 2
        /\ tasks[u].inputs[1].kind = "Placeholder" /\ tasks[u].inputs[2].kind = "Required"
        /\ tasks[u].inputs[1].artifact # tasks[u].inputs[2].artifact
        /\ \A i \in 1..2 : tasks[u].inputs[i].artifact \notin available
        /\ tasks[u].waiting_on = <<WaitArtifact(tasks[u].inputs[2].artifact)>>

\* task u has a Required input that task t lists among its outputs
RequiresOutputOf(u, t) ==
    \E i \in 1..Len(tasks[u].inputs) : \E o \in 1..Len(tasks[t].outputs) :
        /\ tasks[u].inputs[i].kind = "Required"
        /\ tasks[u].inputs[i].artifact = tasks[t].outputs[o]

\* the tasks that depend on an output of t, directly or through other tasks
DependentsOf(t) ==
    LET RECURSIVE grow(_)
        grow(S) ==
            LET more == S \cup {u \in TaskIds : \E p \in S : RequiresOutputOf(u, p)}
            IN IF more = S THEN S ELSE grow(more)
    IN grow({u \in TaskIds : RequiresOutputOf(u, t)})

\* C30: while a task is Failed, update_task_statuses makes Ready no task
\* that depends on one of its outputs, directly or transitively through
\* Required inputs: such a task stays Blocked, and a direct dependent waits
\* on the id of the failed task.
C30_FailedBlocksDependents ==
    [][UpdateTaskStatuses =>
          \A t \in TaskIds : \A u \in DependentsOf(t) :
              (tasks[t].status = "Failed" /\ tasks[u].status = "Blocked") =>
                  /\ tasks'[u].status = "Blocked"
                  /\ RequiresOutputOf(u, t) =>
                        \E k \in 1..Len(tasks'[u].waiting_on) :
                            tasks'[u].waiting_on[k] = WaitTask(t)]_vars

\* C31: whenever a task is Ready or Running, every other task that lists one of
\* its Required input artifacts among its outputs is Complete.
C31_ProducersCompleteBeforeRun ==
    \A u \in TaskIds :
        tasks[u].status \in {"Ready", "Running"} =>
            \A t \in TaskIds \ {u} : RequiresOutputOf(u, t) => tasks[t].status = "Complete"

\* C32: invalidate_downstream on an artifact whose status is Placeholder or
\* Missing changes no artifact status and no task status.
C32_InvalidatePlaceholderNoOp ==
    [][\A a \in ArtifactIds :
          (artifacts[a] \in {"Placeholder", "Missing"} /\ InvalidateDownstream(a)) =>
              /\ artifacts' = artifacts
              /\ \A t \in TaskIds : tasks'[t].status = tasks[t].status]_vars

\* ---------------------------------------------------------- declared order
\* a workflow under construction: no task added yet
DeclInit ==
    /\ tasks = <<>>
    /\ artifacts = [a \in 1..NumArtifacts |-> "Absent"]
    /\ running = {} /\ occupied_groups = {} /\ occupied_resources = {}
    /\ NoEngine
    /\ NoRuntime
    /\ NoCheckpoints
    /\ NoQueue

\* WorkflowState::add_task: tasks.insert(task.id, task) into the BTreeMap;
\* ids are numbered in their sort order, the order of the calls is the order
\* of declaration
AddTask(id, task) ==
    /\ id \notin DOMAIN tasks
    /\ tasks' = [t \in DOMAIN tasks \cup {id} |-> IF t = id THEN task ELSE tasks[t]]
    /\ calls' = Append(calls, Call("add_task", id, task, Ok(<<>>)))
    /\ UNCHANGED <<artifacts, running, occupied_groups, occupied_resources, engineVars,
                   wfVars, queueVars, command_allowlist, planned_dirs, planned_writes,
                   disk, spawned>>

DeclNext ==
    \/ \E id \in 1..NumTasks, g \in {NoGroup} \cup Groups, r \in {NoResource} \cup Resources :
          AddTask(id, NewTask(<<>>, <<>>, g, r))
    \/ UpdateTaskStatuses

DeclSpec == DeclInit /\ [][DeclNext]_vars

\* the position of the add_task call that declared task t
DeclaredAt(t) == CHOOSE k \in 1..Len(calls) : calls[k].op = "add_task" /\ calls[k].arg = t

\* C33: once every task is declared, get_runnable_tasks lists the
\* dispatchable tasks in the order in which they were added, whatever the
\* order of their ids.
C33_RunnableInDeclaredOrder ==
    DOMAIN tasks = 1..NumTasks =>
        \A i, j \in 1..Len(get_runnable_tasks) :
            i < j => DeclaredAt(get_runnable_tasks[i]) < DeclaredAt(get_runnable_tasks[j])

\* ------------------------------------------------------- the same run twice
\* Runner::run_with_options is called a second time with the configuration,
\* the variables and the options of the first call, on the files the first
\* call started from; what the first call dispatched, observed and returned
\* is kept in the call log
RunSame ==
    /\ pc = "done"
    /\ ~rerun
    /\ error.kind \notin {"cycle", "missing_dep"}
    /\ calls' = <<Call("run_with_options", resume, merged_vars,
                       Ok([trace |-> trace, seen |-> seen, reports |-> reports,
                           step_reports |-> step_reports]))>>
    /\ rerun' = TRUE
    /\ pc' = "loop"
    /\ completed' = {} /\ failed' = {} /\ blocked' = {}
    /\ reports' = [s \in Steps |-> NoReport]
    /\ runnable' = <<>>
    /\ last_runnable_count' = USIZE_MAX
    /\ result' = "none" /\ error' = NoErr /\ step_reports' = <<>>
    /\ trace' = <<>>
    /\ seen' = [s \in Steps |-> "none"]
    /\ probe' = NoProbe
    /\ UNCHANGED <<queueVars, wfVars, schedVars, depends_on, resume_output, resume,
                   merged_vars, executors, command_allowlist, planned_dirs,
                   planned_writes, disk, spawned>>

\* the environment of a dispatch: should_skip finds the file the workdir
\* holds at the step's rendered output path, and run_step returns the status
\* the step's deterministic executor gives
SameEnvironment(f, status) ==
    /\ pc = "dispatch"
    /\ LET s == Head(runnable) IN
       /\ f = IF resume /\ ProbesDisk(s)
              THEN disk[render_template(resume_output[s], merged_vars).out]
              ELSE NoFile
       /\ status # "Skipped" => executors[s] = status

TwiceNext ==
    \/ \E r \in BOOLEAN, v \in VarMaps : RunRejected(r, v)
    \/ \E r \in BOOLEAN, v \in VarMaps : RunAccepted(r, v)
    \/ BreakEmpty
    \/ BreakNoProgress
    \/ BeginRound
    \/ \E f \in Files \cup {NoFile} :
          SameEnvironment(f, "Skipped") /\ DispatchSkip(f)
    \/ \E f \in Files \cup {NoFile} :
          SameEnvironment(f, "Ok") /\ DispatchOk(f)
    \/ \E f \in Files \cup {NoFile}, e \in ErrorMessages :
          SameEnvironment(f, "Failed") /\ DispatchFailed(f, e)
    \/ RunSame

\* workflows of NumSteps steps in which every step declares a resume_output
\* or none does; a workdir that holds, at each path a resume_output renders
\* to when `out` is given, no file, a file without a duration or a file with
\* one; and for each step an executor that always returns Ok or always fails
TwiceInit ==
    /\ depends_on \in Workflows(NumSteps)
    /\ resume_output \in {[s \in 1..NumSteps |-> NoOutput],
                          [s \in 1..NumSteps |-> OutputOf(s)]}
    /\ resume = FALSE
    /\ merged_vars = EmptyVars
    /\ pc = "start"
    /\ FreshRun
    /\ rerun = FALSE
    /\ executors \in [Steps -> {"Ok", "Failed"}]
    /\ disk \in [{render_template(resume_output[s], [n \in {"out"} |-> "work"]).out :
                      s \in {x \in Steps : resume_output[x] # NoOutput}}
                   -> {MissingFile, [exists |-> TRUE, len |-> 1, duration |-> -1],
                       [exists |-> TRUE, len |-> 1, duration |-> 1]}]
    /\ command_allowlist = {}
    /\ planned_dirs = <<>> /\ planned_writes = <<>>
    /\ spawned = <<>> /\ calls = <<>>
    /\ NoScheduler
    /\ NoCheckpoints
    /\ NoQueue

TwiceSpec == TwiceInit /\ [][TwiceNext]_vars

\* C34: a second run of execute_dag on the same configuration, variables
\* and initial files, with executors that return what they returned before,
\* dispatches the same steps in the same order, skips the same steps and
\* reports the same status for every step.
C34_RunsAgree ==
    (rerun /\ pc = "done") =>
        /\ trace = calls[1].result.value.trace
        /\ step_reports = calls[1].result.value.step_reports

\* a second, resumed run has returned in which a step whose output file
\* was probed and found invalid failed and left two dependents blocked, one
\* behind the other, so that the HashSet of dependents had two orders
C34_Witness ==
    /\ rerun /\ pc = "done" /\ resume
    /\ \E s \in Steps :
          /\ seen[s] = "invalid"
          /\ reports[s].status = "Failed"
          /\ \E u, w \in find_all_dependents(s) :
                u # w /\ u \in depends_on[w] /\ {u, w} \subseteq blocked

\* ------------------------------------------------- save, step by step
\* a WorkflowState without non-finite numbers, no state.json yet
CrashInit ==
    /\ StoreInit
    /\ \A t \in DOMAIN tasks : \A i \in 1..Len(tasks[t].inputs) :
          tasks[t].inputs[i].kind = "Placeholder"
              => tasks[t].inputs[i].duration_secs.class = "finite"

\* StateStore::save up to File::create inside std::fs::write: state.json is
\* opened with truncation. A process that dies here, or between two writes,
\* leaves the file as it is at that point.
SaveTruncate ==
    /\ Len(calls) < MaxCalls
    /\ disk[StatePath] # EmptyFile
    /\ disk' = [disk EXCEPT ![StatePath] = EmptyFile]
    /\ UNCHANGED <<queueVars, wfVars, engineVars, schedVars, command_allowlist, planned_dirs,
                   planned_writes, spawned, calls>>

\* StateStore::save from write_all to the return
SaveWriteAll ==
    /\ Len(calls) < MaxCalls
    /\ disk[StatePath] = EmptyFile
    /\ \E state \in {[header |-> header, tasks |-> tasks, artifacts |-> artifacts,
                       checkpoints |-> checkpoints]} :
          /\ disk' = [disk EXCEPT ![StatePath] = Text(to_string_pretty(state))]
          /\ calls' = Append(calls, Call("save", StatePath, state, Ok(<<>>)))
    /\ UNCHANGED <<queueVars, wfVars, engineVars, schedVars, command_allowlist, planned_dirs,
                   planned_writes, spawned>>

CrashNext ==
    \/ SaveTruncate
    \/ SaveWriteAll
    \/ Load
    \/ \E name \in CheckpointNames : ReachCheckpoint(name)
    \/ \E name \in CheckpointNames : ApproveCheckpoint(name)

CrashSpec == CrashInit /\ [][CrashNext]_vars

\* C35: a load that runs after an interrupted save or while a save is under
\* way succeeds and returns nothing (no state was ever saved) or a state
\* that a completed save wrote: never the content of a partly written file.
C35_SaveIsAtomic ==
    \A i \in 1..Len(calls) :
        calls[i].op = "load" =>
            /\ calls[i].result.kind = "ok"
            /\ calls[i].result.value # <<>> =>
                  \E k \in 1..(i - 1) :
                      /\ calls[k].op = "save"
                      /\ calls[k].content = calls[i].result.value[1]

\* ------------------------------------------------------ validate_dag alone
\* workflows of NumSteps steps with up to NumSteps depends_on entries in all
\* (a step can be reachable along two paths), before run_with_options
ValidateInit ==
    /\ depends_on \in {DepsOf(E, NumSteps) :
                          E \in {F \in SUBSET ((1..NumSteps) \X (0..NumSteps)) :
                                    Cardinality(F) <= NumSteps}}
    /\ resume_output = [s \in 1..NumSteps |-> NoOutput]
    /\ resume = FALSE
    /\ merged_vars = EmptyVars
    /\ pc = "start"
    /\ FreshRun
    /\ rerun = FALSE
    /\ executors = <<>>
    /\ NoScheduler
    /\ NoRuntime
    /\ NoCheckpoints
    /\ NoQueue

ValidateNext ==
    \/ \E r \in BOOLEAN, v \in VarMaps : RunRejected(r, v)
    \/ \E r \in BOOLEAN, v \in VarMaps : RunAccepted(r, v)

ValidateSpec == ValidateInit /\ [][ValidateNext]_vars

\* C36: validate_dag accepts a workflow exactly when every depends_on entry
\* names a step and no step depends on itself through depends_on; a rejected
\* workflow has dispatched no step and has no report.
C36_ValidateDagExact ==
    pc # "start" =>
        /\ (pc = "loop") <=> (~HasDangling /\ ~HasCycle)
        /\ (pc = "done") =>
              /\ result = "err"
              /\ error.kind = (IF HasDangling THEN "missing_dep" ELSE "cycle")
              /\ trace = <<>>
              /\ \A s \in Steps : reports[s] = NoReport

\* an accepted workflow in which step c is reachable from step a directly
\* and through step b
C36_Witness ==
    /\ pc = "loop"
    /\ \E a, b, c \in Steps :
          /\ Cardinality({a, b, c}) = 3
          /\ a \in depends_on[b] /\ b \in depends_on[c] /\ a \in depends_on[c]

\* ------------------------------------------------------------- termination
\* a run, fresh or resumed, of a workflow that validate_dag accepts; each
\* step declares a resume_output or none
FairInit ==
    /\ Init
    /\ validate_dag = NoErr

\* execute_dag from its entry to its return, the resume skip included
FairNext ==
    \/ \E r \in BOOLEAN, v \in VarMaps : RunAccepted(r, v)
    \/ BreakEmpty
    \/ BreakNoProgress
    \/ BeginRound
    \/ \E f \in Files \cup {NoFile} : DispatchSkip(f)
    \/ \E f \in Files \cup {NoFile} : DispatchOk(f)
    \/ \E f \in Files \cup {NoFile}, e \in ErrorMessages : DispatchFailed(f, e)

\* run_with_options is sequential code and every executor returns: the run
\* keeps taking its next step
FairSpec == FairInit /\ [][FairNext]_vars /\ WF_vars(FairNext)

\* C37: execute_dag terminates: at the loop head it returns or begins a
\* round of at least one step, none of them processed before; each dispatch
\* of the round moves its step into completed or failed; no more dispatches
\* happen than there are steps, so no more rounds; and a run that has entered
\* the loop returns.
C37_ExecuteDagTerminates ==
    /\ [][/\ pc = "loop" =>
               \/ pc' = "done"
               \/ /\ pc' = "dispatch"
                  /\ runnable' # <<>>
                  /\ \A i \in 1..Len(runnable') :
                        runnable'[i] \notin completed \cup failed \cup blocked
          /\ pc = "dispatch" =>
               /\ Head(runnable) \notin completed \cup failed
               /\ Head(runnable) \in completed' \cup failed'
               /\ completed \subseteq completed' /\ failed \subseteq failed'
               /\ runnable' = Tail(runnable)]_vars
    /\ [](Len(trace) <= NumSteps)
    /\ (pc = "loop") ~> (pc = "done")

\* a resumed run has returned after two rounds: a step was skipped because
\* its output file is valid, and a step that depends on it was executed in
\* a later round
C37_Witness ==
    /\ pc = "done" /\ resume
    /\ \E i, j \in 1..Len(trace) :
          /\ trace[i].how = "skip" /\ trace[j].how = "run"
          /\ trace[i].step \in depends_on[trace[j].step]

\* ------------------------------------------------- one dispatch per step
\* C38: in one run of execute_dag no step is dispatched twice; completed,
\* failed and blocked are pairwise disjoint at every point of the loop; no
\* dispatched step is blocked, a step stays blocked once it is, and the step
\* about to be dispatched is in none of the three sets.
C38_DispatchedAtMostOnce ==
    /\ [](/\ \A i, j \in 1..Len(trace) : trace[i].step = trace[j].step => i = j
          /\ completed \cap failed = {}
          /\ completed \cap blocked = {}
          /\ failed \cap blocked = {}
          /\ \A i \in 1..Len(trace) : trace[i].step \notin blocked)
    /\ [][pc = "dispatch" =>
            /\ blocked \subseteq blocked'
            /\ Head(runnable) \notin completed \cup failed \cup blocked]_vars

\* a run has returned with a completed, a failed and a blocked step
C38_Witness ==
    /\ pc = "done"
    /\ completed # {} /\ failed # {} /\ blocked # {}
    /\ \E i \in 1..Len(trace) : trace[i].how = "skip"

\* ------------------------------------- the two invalidate_downstream
\* scheduler/invalidation.rs collect_targets with find_downstream: an
\* artifact popped for the first time pushes the outputs, not yet
\* invalidated, of every task that consumes it
collect_targets(changed) ==
    LET RECURSIVE find_downstream(_, _, _), loop(_, _)
        find_downstream(ts, a, invalidated) ==
            IF ts = <<>> THEN <<>>
            ELSE (IF task_consumes(Head(ts), a)
                  THEN SelectSeq(tasks[Head(ts)].outputs, LAMBDA o : o \notin invalidated)
                  ELSE <<>>) \o find_downstream(Tail(ts), a, invalidated)
        loop(to_invalidate, invalidated) ==
            IF to_invalidate = <<>> THEN invalidated
            ELSE LET a == to_invalidate[Len(to_invalidate)]
                     rest == SubSeq(to_invalidate, 1, Len(to_invalidate) - 1)
                 IN IF a \in invalidated THEN loop(rest, invalidated)
                    ELSE loop(rest \o find_downstream(TaskSeq, a, invalidated \cup {a}),
                              invalidated \cup {a})
    IN loop(<<changed>>, {})

\* C39: invalidate_downstream of scheduler/helpers.rs leaves the tasks and the
\* artifacts in the statuses that reset_tasks and invalidate_artifacts of
\* scheduler/invalidation.rs give for the targets of collect_targets.
C39_ImplementationsAgree ==
    [][\A a \in ArtifactIds :
          InvalidateDownstream(a) =>
              /\ artifacts' = invalidated_artifacts(collect_targets(a))
              /\ \A t \in TaskIds :
                    tasks'[t].status = reset_tasks(collect_targets(a))[t].status]_vars

\* ------------------------------------------------------- GpuQueue, liveness
\* every task passed to run_tts or run_lipsync terminates, and a future
\* waiting in acquire() is polled while the semaphore has a permit for it
QueueFairSpec ==
    /\ QueueInit
    /\ [][QueueNext]_vars
    /\ \A k \in 1..NumCallers : WF_vars(Acquire(k)) /\ WF_vars(Complete(k))

Waiting(q) == {k \in DOMAIN callers : callers[k].queue = q /\ callers[k].at = "acquire"}

\* C40: every caller waiting in run_tts or run_lipsync eventually runs its
\* task, and a caller waiting in run_lipsync can take a permit whenever fewer
\* lipsync permits are held than the lipsync capacity, whatever run_tts
\* callers are doing.
C40_WaitersEventuallyRun ==
    /\ \A k \in 1..NumCallers :
          (callers[k].at = "acquire") ~> (callers[k].at = "task")
    /\ [](\A k \in 1..NumCallers :
             (k \in Waiting("lipsync")
              /\ Cardinality(Holding("lipsync") \ {k}) < capacity["lipsync"])
                 => ENABLED Acquire(k))

\* C40, for queues with a permit to give: every caller waiting on a queue of
\* capacity at least 1 eventually runs its task, and a caller waiting in
\* run_lipsync can take a permit whenever fewer lipsync permits are held by
\* other callers (executing, or handed the permit while waiting) than the
\* lipsync capacity, whatever run_tts callers are doing.
C40_WaitersRunGivenCapacity ==
    /\ \A k \in 1..NumCallers :
          (callers[k].at = "acquire" /\ capacity[callers[k].queue] > 0)
              ~> (callers[k].at = "task")
    /\ [](\A k \in 1..NumCallers :
             (k \in Waiting("lipsync")
              /\ Cardinality(Holding("lipsync") \ {k}) < capacity["lipsync"])
                 => ENABLED Acquire(k))

\* with TTS capacity 1, one run_tts caller has returned and a second one is
\* executing, while a run_lipsync caller executes next to it
C40_Witness ==
    /\ capacity["tts"] = 1
    /\ \E k, j \in DOMAIN callers :
          /\ callers[k].queue = "tts" /\ callers[k].at = "returned"
          /\ callers[j].queue = "tts" /\ callers[j].at = "task"
    /\ Executing("lipsync") # {}

====
